---- MODULE Spec2Model ----
(***************************************************************************)
(* Client-side store, dirty-state tracking and navigation guard of the     *)
(* HardbanRecords Lab dashboard (src/index.tsx, first application copy,    *)
(* lines 1-2144).                                                          *)
(*                                                                         *)
(* JavaScript strings that the code inspects character by character        *)
(* (collaborator names and shares, entity ids rendered as option values)   *)
(* are sequences of one-character strings.  Chapter texts, which the code  *)
(* only stores, copies and tests for emptiness, are TLA+ strings.          *)
(* JavaScript objects that the code shares by reference (collaborator      *)
(* rows) live in an explicit heap, rowObjs; arrays hold row addresses.     *)
(***************************************************************************)
EXTENDS Integers, Sequences, FiniteSets, TLC

VARIABLES
    \* ---- zustand store (AppState) ----
    isInitialized,   \* false while the full-screen loader is shown
    view,            \* 'DASHBOARD' | 'MUSIC' | 'PUBLISHING'
    loading,         \* LoadingState, one flag per AI action
    toasts,          \* ToastMessage[]
    onboarding,      \* {tourStepIndex, onboardingComplete, activeTabOverride}
    releases,        \* music.releases
    musicTasks,      \* music.tasks
    books,           \* publishing.books
    pubTasks,        \* publishing.tasks
    rowObjs,         \* heap of collaborator row objects {name, share}
    now,             \* the reading Date.now() returns
    \* ---- MusicPublishingView component state ----
    mActiveTab, mSelectedReleaseId, mCollaborators, mNavModalOpen, mNextNav,
    mMood, mTags,
    \* ---- DigitalPublishingAIView component state ----
    pActiveTab, pSelectedBookId, pCollaborators, pNavModalOpen, pNextNav,
    pManuscriptDirty, pManuscriptText, pLastManuscriptState, pActiveChapterIndex,
    \* ---- event loop: pending timers and awaited promises ----
    pending,
    \* ---- observation of the run (history variables) ----
    lastSaved,       \* argument of the most recent api.saveData call
    savesInStep,     \* number of api.saveData calls made by the last step
    lastOp,          \* name of the handler the last step ran
    lastNav,         \* action passed to the most recent handleNavigate call
    navExecs,        \* executions of the captured action since it was captured
    navCancelled,    \* Cancel resolved the prompt since the action was captured
    execAfterCancel, \* the captured action ran after Cancel resolved the prompt
    sinceEdit,       \* time elapsed since the last updateChapterContent call
    edits            \* number of edits typed into the edit buffers so far

storeVars == <<isInitialized, view, loading, toasts, onboarding, releases, musicTasks, books, pubTasks, rowObjs, now>>
musicVars == <<mActiveTab, mSelectedReleaseId, mCollaborators, mNavModalOpen, mNextNav,
               mMood, mTags>>
pubVars == <<pActiveTab, pSelectedBookId, pCollaborators, pNavModalOpen, pNextNav,
             pManuscriptDirty, pManuscriptText, pLastManuscriptState, pActiveChapterIndex>>
histVars == <<lastSaved, savesInStep, lastOp, lastNav, navExecs, navCancelled,
              execAfterCancel, sinceEdit, edits>>
vars == <<storeVars, musicVars, pubVars, pending, histVars>>

(***************************************************************************)
(* Bounds of the model.                                                    *)
(***************************************************************************)
MaxRows == 3
MaxEdits == 2
MaxPubEdits == 1
MaxToasts == 1
MaxPending == 1

(***************************************************************************)
(* JavaScript strings as sequences of characters.                          *)
(***************************************************************************)
Digits == <<"0", "1", "2", "3", "4", "5", "6", "7", "8", "9">>

IsDigit(c) == \E i \in 1..10 : Digits[i] = c

DigitVal(c) == (CHOOSE i \in 1..10 : Digits[i] = c) - 1

IsSpace(c) == c = " "

RECURSIVE trimStart(_)
trimStart(s) ==
    IF s # <<>> /\ IsSpace(Head(s)) THEN trimStart(Tail(s)) ELSE s

RECURSIVE trimEnd(_)
trimEnd(s) ==
    IF s # <<>> /\ IsSpace(s[Len(s)]) THEN trimEnd(SubSeq(s, 1, Len(s) - 1)) ELSE s

trim(s) == trimEnd(trimStart(s))

\* Length of the longest prefix of s made of digits.
RECURSIVE DigitPrefix(_)
DigitPrefix(s) ==
    IF s # <<>> /\ IsDigit(Head(s)) THEN 1 + DigitPrefix(Tail(s)) ELSE 0

RECURSIVE DigitsValue(_)
DigitsValue(s) ==
    IF s = <<>> THEN 0 ELSE 10 * DigitsValue(SubSeq(s, 1, Len(s) - 1)) + DigitVal(s[Len(s)])

\* /^\d*\.?\d*$/.test(value)
ShareRegexTest(s) ==
    LET n == DigitPrefix(s)
        rest == SubSeq(s, n + 1, Len(s))
        rest2 == IF rest # <<>> /\ Head(rest) = "." THEN Tail(rest) ELSE rest
    IN DigitPrefix(rest2) = Len(rest2)

\* parseFloat(s) for unsigned decimals without exponent, in thousandths;
\* NaN when no digit starts the number.  Exact for at most three decimals.
NaN == -1

parseFloat(s) ==
    LET t == trimStart(s)
        n == DigitPrefix(t)
        rest == SubSeq(t, n + 1, Len(t))
        hasDot == rest # <<>> /\ Head(rest) = "."
        fracAll == IF hasDot THEN SubSeq(rest, 2, 1 + DigitPrefix(Tail(rest))) ELSE <<>>
        frac == SubSeq(fracAll, 1, IF Len(fracAll) > 3 THEN 3 ELSE Len(fracAll))
        scale == CASE Len(frac) = 0 -> 1000 [] Len(frac) = 1 -> 100
                   [] Len(frac) = 2 -> 10 [] OTHER -> 1
    IN IF n = 0 /\ fracAll = <<>> THEN NaN
       ELSE DigitsValue(SubSeq(t, 1, n)) * 1000 + DigitsValue(frac) * scale

\* (n).toString() of a non-negative integer
RECURSIVE toString(_)
toString(n) ==
    IF n < 10 THEN <<Digits[n + 1]>> ELSE toString(n \div 10) \o <<Digits[(n % 10) + 1]>>

\* parseInt(s, 10) of an unsigned string; NaN when no digit starts it
parseInt(s) ==
    LET t == trimStart(s)
        n == DigitPrefix(t)
    IN IF n = 0 THEN NaN ELSE DigitsValue(SubSeq(t, 1, n))

\* JSON string literal: quotes and backslashes are escaped
RECURSIVE JsonEscape(_)
JsonEscape(s) ==
    IF s = <<>> THEN <<>>
    ELSE (IF Head(s) = "\"" \/ Head(s) = "\\" THEN <<"\\", Head(s)>> ELSE <<Head(s)>>)
         \o JsonEscape(Tail(s))

JsonRow(r) ==
    <<"{", "\"", "n", "a", "m", "e", "\"", ":", "\"">> \o JsonEscape(r.name) \o
    <<"\"", ",", "\"", "s", "h", "a", "r", "e", "\"", ":", "\"">> \o JsonEscape(r.share) \o
    <<"\"", "}">>

RECURSIVE JsonRows(_)
JsonRows(rs) ==
    IF rs = <<>> THEN <<>>
    ELSE JsonRow(Head(rs)) \o (IF Tail(rs) = <<>> THEN <<>> ELSE <<",">>) \o JsonRows(Tail(rs))

\* JSON.stringify of an array of {name, share} objects
JSONstringify(rs) == <<"[">> \o JsonRows(rs) \o <<"]">>

(***************************************************************************)
(* Heap of collaborator row objects.  An array of rows is a sequence of    *)
(* addresses; [...array] copies the addresses, not the objects.            *)
(***************************************************************************)
Addr == 1..MaxRows

FreeRow == [live |-> FALSE, name |-> <<>>, share |-> <<>>]

Row(name, share) == [live |-> TRUE, name |-> name, share |-> share]

\* The {name, share} values an array of rows holds, as JSON.stringify sees them.
Vals(addrs, heap) ==
    [i \in 1..Len(addrs) |-> [name |-> heap[addrs[i]].name, share |-> heap[addrs[i]].share]]

FreeAddrs(heap) == {a \in Addr : ~heap[a].live}

\* Address given to the next object literal {name: .., share: ..}.
NewAddr(heap) == CHOOSE a \in FreeAddrs(heap) : \A b \in FreeAddrs(heap) : a <= b

Range(f) == {f[i] : i \in DOMAIN f}

\* Rows no array refers to any more are collected.
Collect(heap, rels, bks, mcol, pcol) ==
    LET used == UNION ({Range(rels[i].splits) : i \in DOMAIN rels}
                       \cup {Range(bks[i].splits) : i \in DOMAIN bks}
                       \cup {Range(mcol), Range(pcol)})
    IN [a \in Addr |-> IF a \in used THEN heap[a] ELSE FreeRow]

(***************************************************************************)
(* The zustand store: its mutations as functions of the collections.       *)
(***************************************************************************)
Undefined == "<undefined>"

NoOverride == "<undefined>"

RightKeys == {"territorial", "translation", "adaptation", "audio", "drm"}

LoadingKeys == {"metadata", "proofread", "plotAnalysis", "enrichment", "blurb", "bookCover"}

\* strings of the sample data
sA == <<"A">>
sB == <<"B">>
s40 == <<"4", "0">>
s41 == <<"4", "1">>
s60 == <<"6", "0">>
s100 == <<"1", "0", "0">>

NoRights == [k \in RightKeys |-> FALSE]

\* Index of the first entity of xs with the given id (Array.prototype.find), 0 if none.
FindById(xs, id) ==
    IF \E i \in DOMAIN xs : xs[i].id = id
    THEN CHOOSE i \in DOMAIN xs : xs[i].id = id /\ \A j \in DOMAIN xs : xs[j].id = id => i <= j
    ELSE 0

addToast(ts, type, t) == Append(ts, [id |-> t, type |-> type])

dismissToast(ts, id) == SelectSeq(ts, LAMBDA x : x.id # id)

addRelease(rels, splits, t) ==
    Append(rels, [id |-> t, status |-> "Submitted", splits |-> splits])

updateMusicSplits(rels, releaseId, splits) ==
    [i \in DOMAIN rels |->
        IF rels[i].id = releaseId THEN [rels[i] EXCEPT !.splits = splits] ELSE rels[i]]

addTask(tasks, t) == Append(tasks, [id |-> t, completed |-> FALSE])

toggleTask(tasks, id) ==
    [i \in DOMAIN tasks |->
        IF tasks[i].id = id THEN [tasks[i] EXCEPT !.completed = ~@] ELSE tasks[i]]

addBook(bks, bookData, t) ==
    Append(bks, [id |-> t, splits |-> bookData.splits, chapters |-> bookData.chapters,
                 rights |-> bookData.rights, blurb |-> bookData.blurb,
                 coverImageUrl |-> bookData.coverImageUrl])

\* updateBook with data = {splits}, {chapters} or {rights}
updateBookSplits(bks, bookId, splits) ==
    [i \in DOMAIN bks |-> IF bks[i].id = bookId THEN [bks[i] EXCEPT !.splits = splits] ELSE bks[i]]

updateBookChapters(bks, bookId, chapters) ==
    [i \in DOMAIN bks |->
        IF bks[i].id = bookId THEN [bks[i] EXCEPT !.chapters = chapters] ELSE bks[i]]

updateBookRights(bks, bookId, rights) ==
    [i \in DOMAIN bks |-> IF bks[i].id = bookId THEN [bks[i] EXCEPT !.rights = rights] ELSE bks[i]]

\* updateBook with data = {blurb} or {coverImageUrl}
updateBookField(bks, bookId, field, value) ==
    [i \in DOMAIN bks |-> IF bks[i].id = bookId THEN [bks[i] EXCEPT ![field] = value] ELSE bks[i]]

\* An array slot never assigned, or an object spread from undefined.
Hole == [title |-> [label |-> Undefined, n |-> 0], content |-> Undefined]

\* updatedChapters[chapterIndex] = {...updatedChapters[chapterIndex], content}
\* (chapterIndex counts from 0; an index past the end grows the array with holes)
SetChapter(chapters, chapterIndex, content) ==
    LET n == IF chapterIndex + 1 > Len(chapters) THEN chapterIndex + 1 ELSE Len(chapters)
        old(i) == IF i <= Len(chapters) THEN chapters[i] ELSE Hole
    IN [i \in 1..n |->
          IF i = chapterIndex + 1 THEN [title |-> old(i).title, content |-> content] ELSE old(i)]

\* the set() of updateChapterContent
updateChapterContent(bks, bookId, chapterIndex, content) ==
    [i \in DOMAIN bks |->
        IF bks[i].id = bookId
        THEN [bks[i] EXCEPT !.chapters = SetChapter(bks[i].chapters, chapterIndex, content)]
        ELSE bks[i]]

\* chapters[i]?.content || ''
ChapterContentOr(chapters, chapterIndex) ==
    IF chapterIndex + 1 \in DOMAIN chapters /\ chapters[chapterIndex + 1].content # Undefined
    THEN chapters[chapterIndex + 1].content
    ELSE ""

\* What api.saveData receives: get() read when _saveState is called.
saveState(rels, mtasks, bks, ptasks, onb, heap) ==
    [music |-> [releases |-> [i \in DOMAIN rels |->
                                 [id |-> rels[i].id, status |-> rels[i].status,
                                  splits |-> Vals(rels[i].splits, heap)]],
                tasks |-> mtasks],
     publishing |-> [books |-> [i \in DOMAIN bks |->
                                   [id |-> bks[i].id, splits |-> Vals(bks[i].splits, heap),
                                    chapters |-> bks[i].chapters, rights |-> bks[i].rights,
                                    blurb |-> bks[i].blurb,
                                    coverImageUrl |-> bks[i].coverImageUrl]],
                     tasks |-> ptasks],
     onboardingComplete |-> onb.onboardingComplete]

(***************************************************************************)
(* Navigation actions: the closures handed to handleNavigate.              *)
(***************************************************************************)
NoNav == [type |-> "none", tab |-> "", id |-> <<>>, idx |-> 0, book |-> 0, chapters |-> <<>>]

\* () => setActiveTab(tab)
NavTab(tab) == [NoNav EXCEPT !.type = "tab", !.tab = tab]

\* () => setView('DASHBOARD')
NavBack == [NoNav EXCEPT !.type = "view"]

\* () => setSelectedBookId(e.target.value)
NavBook(id) == [NoNav EXCEPT !.type = "book", !.id = id]

\* () => setActiveChapterIndex(index)
NavChapter(idx) == [NoNav EXCEPT !.type = "chapter", !.idx = idx]

\* the async action of handleCreateNewChapter, closed over selectedBook
NavNewChapter(book, chapters) ==
    [NoNav EXCEPT !.type = "newChapter", !.book = book, !.chapters = chapters]

(***************************************************************************)
(* MusicPublishingView.  A handler is a function of the state its render   *)
(* closed over (a record s) giving the state after its set-calls; the      *)
(* effects run when the step is committed.                                 *)
(***************************************************************************)
MusicTabs == {"studio", "splits"}

MusicNames == {<<>>, <<" ">>}

MusicShares == {<<>>, <<"4", "1">>, <<"1", "0", "1">>, <<"x">>}

\* rows whose name and share are not both blank
Cleaned(addrs, heap) ==
    SelectSeq(addrs, LAMBDA a : trim(heap[a].name) # <<>> \/ trim(heap[a].share) # <<>>)

\* releases.find(r => r.id === parseInt(selectedReleaseId, 10)), as an index
M_selectedRelease(s) == FindById(s.rels, parseInt(s.sel))

M_isDirty(s) ==
    IF M_selectedRelease(s) = 0 \/ s.tab # "splits" THEN FALSE
    ELSE JSONstringify(Vals(Cleaned(s.col, s.heap), s.heap))
            # JSONstringify(Vals(s.rels[M_selectedRelease(s)].splits, s.heap))

M_runNav(s, action) ==
    CASE action.type = "tab" -> [s EXCEPT !.tab = action.tab]
      [] action.type = "view" -> [s EXCEPT !.view = "DASHBOARD"]
      [] OTHER -> s

M_handleNavigate(s, action) ==
    IF M_isDirty(s)
    THEN [s EXCEPT !.next = action, !.modal = TRUE]
    ELSE M_runNav(s, action)

M_handleAddCollaborator(s) ==
    [s EXCEPT !.heap = [@ EXCEPT ![NewAddr(s.heap)] = Row(<<>>, <<>>)],
              !.col = Append(@, NewAddr(s.heap))]

\* index counts from 0; newCollaborators[index] is the object collaborators[index]
M_handleCollaboratorChange(s, index, field, value) ==
    LET a == s.col[index + 1] IN
    IF field = "share"
    THEN IF value = <<>> \/ ShareRegexTest(value)
         THEN IF parseFloat(value) > 100 * 1000
              THEN [s EXCEPT !.heap = [@ EXCEPT ![a].share = <<"1", "0", "0">>]]
              ELSE [s EXCEPT !.heap = [@ EXCEPT ![a].share = value]]
         ELSE s
    ELSE [s EXCEPT !.heap = [@ EXCEPT ![a].name = value]]

M_handleSaveSplits(s) ==
    IF M_selectedRelease(s) = 0 THEN s
    ELSE LET cleaned == Cleaned(s.col, s.heap)
             rels2 == updateMusicSplits(s.rels, s.rels[M_selectedRelease(s)].id, cleaned)
         IN [s EXCEPT !.rels = rels2,
                      !.replaced = TRUE,
                      !.saved = saveState(rels2, musicTasks, books, pubTasks, onboarding, s.heap),
                      !.saves = @ + 1,
                      !.col = cleaned,
                      !.toasts = addToast(@, "success", now)]

\* collaborators.reduce((sum, c) => sum + (parseFloat(c.share) || 0), 0), in thousandths
RECURSIVE SumShares(_, _)
SumShares(addrs, heap) ==
    IF addrs = <<>> THEN 0
    ELSE (IF parseFloat(heap[Head(addrs)].share) = NaN THEN 0
          ELSE parseFloat(heap[Head(addrs)].share)) + SumShares(Tail(addrs), heap)

M_totalSplit(s) == SumShares(s.col, s.heap)

\* a handleCancelNavigation that forgets setNextNavigationAction(null)
M_handleCancelNavigation_keepsAction(s) == [s EXCEPT !.modal = FALSE]

M_handleCancelNavigation(s) == [s EXCEPT !.modal = FALSE, !.next = NoNav]

M_handleDiscardAndNavigate(s) ==
    LET s1 == IF M_selectedRelease(s) # 0
              THEN [s EXCEPT !.col = s.rels[M_selectedRelease(s)].splits] ELSE s
        s2 == IF s.next # NoNav THEN M_runNav(s1, s.next) ELSE s1
    IN M_handleCancelNavigation(s2)

M_handleSaveAndNavigate(s) ==
    LET s1 == M_handleSaveSplits(s)
        s2 == IF s.next # NoNav THEN M_runNav(s1, s.next) ELSE s1
    IN M_handleCancelNavigation(s2)

\* the state a render of the mounted view closes over
M_cur ==
    [view |-> view, tab |-> mActiveTab, sel |-> mSelectedReleaseId, col |-> mCollaborators,
     modal |-> mNavModalOpen, next |-> mNextNav, mood |-> mMood, tags |-> mTags,
     rels |-> releases, heap |-> rowObjs, toasts |-> toasts, loading |-> loading,
     pend |-> pending, saved |-> lastSaved, saves |-> 0, replaced |-> FALSE]

\* unmounting orphans the closures still pending
Orphan(pend) == [i \in DOMAIN pend |-> [pend[i] EXCEPT !.alive = FALSE]]

\* useState initial values
M_initial(s) ==
    [s EXCEPT !.tab = "studio", !.sel = <<>>, !.col = <<>>, !.modal = FALSE, !.next = NoNav,
              !.mood = "", !.tags = ""]

\* The effects after a render: pre is the state of the previous render, post
\* the state the handler produced, deps whether a dependency of the
\* collaborators effect (selectedRelease, activeTab) is already known to differ.
M_effects(pre, post, deps) ==
    LET sel2 == IF Len(post.rels) > 0 /\ post.sel = <<>>
                THEN toString(post.rels[1].id) ELSE post.sel
        p2 == [post EXCEPT !.sel = sel2]
        changed == deps \/ post.replaced \/ post.tab # pre.tab
                        \/ M_selectedRelease(p2) # M_selectedRelease(pre)
    IN IF changed /\ p2.tab = "splits" /\ M_selectedRelease(p2) # 0
       THEN [p2 EXCEPT !.col = p2.rels[M_selectedRelease(p2)].splits]
       ELSE p2

\* mounting: initial state, the activeTabOverride effect, then every effect
M_mount(s) ==
    LET s0 == M_initial(s)
        s1 == IF onboarding.activeTabOverride # NoOverride
              THEN [s0 EXCEPT !.tab = onboarding.activeTabOverride] ELSE s0
    IN M_effects(s0, s1, TRUE)

\* A step of the mounted music view ends with its effects, or with the
\* component unmounted when the store's view left 'MUSIC'.
M_after(pre, post) ==
    IF post.view = "MUSIC" THEN M_effects(pre, post, FALSE)
    ELSE [M_initial(post) EXCEPT !.pend = Orphan(@)]

M_commit(fin, op) ==
    /\ view' = fin.view
    /\ mActiveTab' = fin.tab
    /\ mSelectedReleaseId' = fin.sel
    /\ mCollaborators' = fin.col
    /\ mNavModalOpen' = fin.modal
    /\ mNextNav' = fin.next
    /\ mMood' = fin.mood
    /\ mTags' = fin.tags
    /\ releases' = fin.rels
    /\ rowObjs' = Collect(fin.heap, fin.rels, books, fin.col, pCollaborators)
    /\ toasts' = fin.toasts
    /\ Len(fin.toasts) <= MaxToasts
    /\ loading' = fin.loading
    /\ pending' = fin.pend
    /\ Len(fin.pend) <= MaxPending
    /\ lastSaved' = fin.saved
    /\ savesInStep' = fin.saves
    /\ lastOp' = op
    /\ UNCHANGED <<isInitialized, onboarding, musicTasks, books, pubTasks, now,
                   pubVars, sinceEdit>>

(***************************************************************************)
(* Observation of the guard: how often the captured action has run.        *)
(***************************************************************************)
GuardCaptured == navExecs' = 0 /\ navCancelled' = FALSE /\ execAfterCancel' = FALSE

GuardIdle ==
    IF \E i \in DOMAIN pending' : pending'[i].kind = "saveAndNavigate"
    THEN UNCHANGED <<navExecs, navCancelled, execAfterCancel>>
    ELSE GuardCaptured

GuardCancelled == navCancelled' = TRUE /\ UNCHANGED <<navExecs, execAfterCancel>>

GuardExecuted(action) ==
    IF action = NoNav THEN UNCHANGED <<navExecs, navCancelled, execAfterCancel>>
    ELSE /\ navExecs' = navExecs + 1
         /\ execAfterCancel' = (execAfterCancel \/ navCancelled)
         /\ UNCHANGED navCancelled

(***************************************************************************)
(* Events of the music view.  The confirmation modal's overlay covers the  *)
(* view, so the view's own controls are reachable only while it is closed. *)
(***************************************************************************)
M_ready == isInitialized /\ view = "MUSIC" /\ ~mNavModalOpen

\* DashboardCard "Music Publishing": setView('MUSIC') mounts the view
M_Open ==
    /\ isInitialized /\ view = "DASHBOARD"
    /\ M_commit(M_mount([M_cur EXCEPT !.view = "MUSIC"]), "M_Open")
    /\ lastNav' = NoNav /\ GuardIdle /\ UNCHANGED edits

M_Navigate(action, op) ==
    /\ M_ready
    /\ M_commit(M_after(M_cur, M_handleNavigate(M_cur, action)), op)
    /\ lastNav' = action
    /\ IF M_isDirty(M_cur) THEN GuardCaptured ELSE GuardIdle
    /\ UNCHANGED edits

M_TabClick == \E tab \in MusicTabs : M_Navigate(NavTab(tab), "M_TabClick")

M_Back == M_Navigate(NavBack, "M_Back")

\* <select id="release-select"> onChange
M_SelectRelease ==
    /\ M_ready /\ mActiveTab = "splits"
    /\ \E i \in DOMAIN releases :
          /\ toString(releases[i].id) # mSelectedReleaseId
          /\ M_commit(M_after(M_cur, [M_cur EXCEPT !.sel = toString(releases[i].id)]),
                      "M_SelectRelease")
    /\ lastNav' = NoNav /\ GuardIdle /\ UNCHANGED edits

M_AddCollaborator ==
    /\ M_ready /\ mActiveTab = "splits" /\ M_selectedRelease(M_cur) # 0
    /\ FreeAddrs(rowObjs) # {}
    /\ M_commit(M_after(M_cur, M_handleAddCollaborator(M_cur)), "M_AddCollaborator")
    /\ lastNav' = NoNav /\ GuardIdle /\ UNCHANGED edits

M_CollaboratorChange ==
    /\ M_ready /\ mActiveTab = "splits" /\ M_selectedRelease(M_cur) # 0
    /\ edits < MaxEdits /\ edits' = edits + 1
    /\ \E index \in 0..(Len(mCollaborators) - 1) :
          \/ \E value \in MusicNames :
                /\ value # rowObjs[mCollaborators[index + 1]].name
                /\ M_commit(M_after(M_cur, M_handleCollaboratorChange(M_cur, index, "name", value)),
                            "M_CollaboratorChange")
          \/ \E value \in MusicShares :
                /\ value # rowObjs[mCollaborators[index + 1]].share
                /\ M_commit(M_after(M_cur, M_handleCollaboratorChange(M_cur, index, "share", value)),
                            "M_CollaboratorChange")
    /\ lastNav' = NoNav /\ GuardIdle

\* "Save Splits" is disabled unless totalSplit === 100
M_SaveSplits ==
    /\ M_ready /\ mActiveTab = "splits" /\ M_selectedRelease(M_cur) # 0
    /\ M_totalSplit(M_cur) = 100 * 1000
    /\ M_commit(M_after(M_cur, M_handleSaveSplits(M_cur)), "M_SaveSplits")
    /\ lastNav' = NoNav /\ GuardIdle /\ UNCHANGED edits

M_modal == isInitialized /\ view = "MUSIC" /\ mNavModalOpen

M_Cancel ==
    /\ M_modal
    /\ M_commit(M_after(M_cur, M_handleCancelNavigation(M_cur)), "M_Cancel")
    /\ lastNav' = NoNav /\ GuardCancelled /\ UNCHANGED edits

M_Discard ==
    /\ M_modal
    /\ M_commit(M_after(M_cur, M_handleDiscardAndNavigate(M_cur)), "M_Discard")
    /\ lastNav' = NoNav /\ GuardExecuted(mNextNav) /\ UNCHANGED edits

M_SaveAndNavigate ==
    /\ M_modal
    /\ M_commit(M_after(M_cur, M_handleSaveAndNavigate(M_cur)), "M_SaveAndNavigate")
    /\ lastNav' = NoNav /\ GuardExecuted(mNextNav) /\ UNCHANGED edits

\* Toast: the close button, or the 5 s timer, calls dismissToast(message.id)
DismissToast ==
    /\ isInitialized
    /\ \E i \in DOMAIN toasts : toasts' = dismissToast(toasts, toasts[i].id)
    /\ lastOp' = "DismissToast" /\ savesInStep' = 0 /\ lastNav' = NoNav
    /\ UNCHANGED <<isInitialized, view, loading, onboarding, releases, musicTasks, books,
                   pubTasks, rowObjs, now, musicVars, pubVars, pending, lastSaved,
                   navExecs, navCancelled, execAfterCancel, sinceEdit, edits>>

(***************************************************************************)
(* The event loop.  Time is counted in ticks of 250 ms.  pending holds, in *)
(* the order they were issued, the timers and the awaited promises with    *)
(* the closure each continuation carries:                                  *)
(*   debounce        setTimeout(() => get()._saveState(), 500)             *)
(*   reader          FileReader.readAsText, then reader.onload             *)
(*   upload          reader.onload after  await updateBook(..)             *)
(*   newChapter      handleCreateNewChapter's action after await updateBook*)
(*   saveAndNavigate handleSaveAndNavigate after  await forceSave()        *)
(*   generate        an AI handler after  await ai.models.generate..(..)   *)
(*   updateBook      an AI handler after  await updateBook(..)             *)
(* alive: the component instance the closure belongs to is still mounted;  *)
(* entry: the closure's action is the one the guard captured last.         *)
(***************************************************************************)
DebounceTicks == 2

SaveDelayTicks == 1

Item(kind, rem) ==
    [kind |-> kind, rem |-> rem, alive |-> TRUE, entry |-> TRUE, book |-> 0, idx |-> 0,
     text |-> "", nav |-> NoNav, key |-> ""]

\* An awaited generation call waits for the network, not for a timer.
Timed(item) == item.kind # "generate"

\* The continuation of a pending item may run: it is due, and nothing issued
\* before it with the same delay is still waiting.
Due(pend, i) ==
    /\ pend[i].rem = 0
    /\ \A j \in 1..(i - 1) :
          (Timed(pend[j]) /\ (pend[j].kind = "debounce") = (pend[i].kind = "debounce"))
             => pend[j].rem # 0

Remove(pend, i) == SubSeq(pend, 1, i - 1) \o SubSeq(pend, i + 1, Len(pend))

(***************************************************************************)
(* DigitalPublishingAIView.                                                *)
(***************************************************************************)
PubTabs == {"studio", "rights_splits", "distribution"}

PubNames == {<<>>}

PubShares == {<<>>, <<"4", "1">>}

TypedTexts == {"x"}

UploadedTexts == {"u"}

MaxChapters == 2

Title(label, n) == [label |-> label, n |-> n]

\* books.find(b => b.id === parseInt(selectedBookId, 10)), as an index
P_selectedBook(s) == FindById(s.bks, parseInt(s.sel))

P_areSplitsDirty(s) ==
    IF P_selectedBook(s) = 0 \/ s.tab # "rights_splits" THEN FALSE
    ELSE JSONstringify(Vals(Cleaned(s.col, s.heap), s.heap))
            # JSONstringify(Vals(s.bks[P_selectedBook(s)].splits, s.heap))

P_isDirty_anyTab(s) ==
    IF s.tab = "rights_splits" THEN P_areSplitsDirty(s) ELSE s.dirty

P_isDirty(s) ==
    IF s.tab = "studio" THEN s.dirty
    ELSE IF s.tab = "rights_splits" THEN P_areSplitsDirty(s)
    ELSE FALSE

\* the store's updateBook / updateChapterContent seen from a handler:
\* set(), then _saveState() at once or after the debounce delay
P_updateBook(s, bks2, bookId) ==
    [s EXCEPT !.bks = bks2,
              !.replaced = @ \cup {bookId},
              !.saved = saveState(releases, musicTasks, bks2, pubTasks, onboarding, s.heap),
              !.saves = @ + 1]

P_updateChapterContent(s, bookId, chapterIndex, content) ==
    [s EXCEPT !.bks = updateChapterContent(s.bks, bookId, chapterIndex, content),
              !.replaced = @ \cup {bookId},
              !.pend = Append(@, Item("debounce", DebounceTicks)),
              !.edited = TRUE]

P_runNav(s, action) ==
    CASE action.type = "tab" -> [s EXCEPT !.tab = action.tab]
      [] action.type = "view" -> [s EXCEPT !.view = "DASHBOARD"]
      [] action.type = "book" -> [s EXCEPT !.sel = action.id]
      [] action.type = "chapter" -> [s EXCEPT !.idx = action.idx]
      [] action.type = "newChapter" ->
            LET updatedChapters ==
                    Append(action.chapters,
                           [title |-> Title("Chapter", Len(action.chapters) + 1), content |-> ""])
                s1 == P_updateBook(s, updateBookChapters(s.bks, action.book, updatedChapters),
                                   action.book)
            IN [s1 EXCEPT !.pend = Append(@, [Item("newChapter", SaveDelayTicks) EXCEPT
                                                 !.idx = Len(updatedChapters) - 1])]
      [] OTHER -> s

P_handleNavigate(s, action) ==
    IF P_isDirty(s)
    THEN [s EXCEPT !.next = action, !.modal = TRUE]
    ELSE P_runNav(s, action)

P_handleManuscriptChange(s, newContent) ==
    LET s1 == [s EXCEPT !.text = newContent, !.dirty = TRUE] IN
    IF P_selectedBook(s) # 0
    THEN P_updateChapterContent(s1, s.bks[P_selectedBook(s)].id, s.idx, newContent)
    ELSE s1

P_handleChapterChange(s, index) == P_handleNavigate(s, NavChapter(index))

P_handleCreateNewChapter(s) ==
    IF P_selectedBook(s) = 0 THEN s
    ELSE P_handleNavigate(s, NavNewChapter(s.bks[P_selectedBook(s)].id,
                                           s.bks[P_selectedBook(s)].chapters))

\* handleFileUpload: reader.readAsText(file); the file's text arrives in onload
P_handleFileUpload(s, text) ==
    IF P_selectedBook(s) # 0
    THEN [s EXCEPT !.pend = Append(@, [Item("reader", 0) EXCEPT
                                          !.book = s.bks[P_selectedBook(s)].id, !.text = text])]
    ELSE s

\* reader.onload up to its await
P_readerOnload(s, item) ==
    LET updatedChapters == <<[title |-> Title("Chapter 1 (from TXT)", 0), content |-> item.text]>>
        s1 == P_updateBook(s, updateBookChapters(s.bks, item.book, updatedChapters), item.book)
    IN [s1 EXCEPT !.pend = Append(@, [Item("upload", SaveDelayTicks) EXCEPT
                                         !.alive = item.alive, !.text = item.text])]

\* reader.onload after its await
P_uploadResume(s, item) ==
    [s EXCEPT !.idx = 0, !.text = item.text, !.last = Undefined, !.dirty = TRUE,
              !.toasts = addToast(@, "success", now)]

\* handleCreateNewChapter's action after its await
P_newChapterResume(s, item) ==
    [s EXCEPT !.idx = item.idx, !.toasts = addToast(@, "success", now)]

P_handleAddCollaborator(s) ==
    [s EXCEPT !.heap = [@ EXCEPT ![NewAddr(s.heap)] = Row(<<>>, <<>>)],
              !.col = Append(@, NewAddr(s.heap))]

P_handleCollaboratorChange(s, index, field, value) ==
    LET a == s.col[index + 1] IN
    IF field = "share"
    THEN IF value = <<>> \/ ShareRegexTest(value)
         THEN IF parseFloat(value) > 100 * 1000
              THEN [s EXCEPT !.heap = [@ EXCEPT ![a].share = <<"1", "0", "0">>]]
              ELSE [s EXCEPT !.heap = [@ EXCEPT ![a].share = value]]
         ELSE s
    ELSE [s EXCEPT !.heap = [@ EXCEPT ![a].name = value]]

P_handleSaveSplits(s) ==
    IF P_selectedBook(s) = 0 THEN s
    ELSE LET cleaned == Cleaned(s.col, s.heap)
             id == s.bks[P_selectedBook(s)].id
             s1 == P_updateBook(s, updateBookSplits(s.bks, id, cleaned), id)
         IN [s1 EXCEPT !.col = cleaned, !.toasts = addToast(@, "success", now)]

P_totalSplit(s) == SumShares(s.col, s.heap)

P_handleCancelNavigation_keepsAction(s) == [s EXCEPT !.modal = FALSE]

P_handleCancelNavigation(s) == [s EXCEPT !.modal = FALSE, !.next = NoNav]

P_handleDiscardAndNavigate(s) ==
    LET b == P_selectedBook(s)
        s1 == IF s.tab = "studio" /\ b # 0
              THEN [s EXCEPT !.text = ChapterContentOr(s.bks[b].chapters, s.idx), !.dirty = FALSE]
              ELSE s
        s2 == IF s.tab = "rights_splits" /\ b # 0 THEN [s1 EXCEPT !.col = s.bks[b].splits] ELSE s1
        s3 == IF s.next # NoNav THEN P_runNav(s2, s.next) ELSE s2
    IN P_handleCancelNavigation(s3)

\* handleSaveAndNavigate up to its await (to its end, when it does not await)
P_handleSaveAndNavigate(s) ==
    IF s.tab = "studio" /\ P_selectedBook(s) # 0
    THEN [s EXCEPT !.saved = saveState(releases, musicTasks, s.bks, pubTasks, onboarding, s.heap),
                   !.saves = @ + 1,
                   !.pend = Append(@, [Item("saveAndNavigate", SaveDelayTicks) EXCEPT
                                          !.nav = s.next])]
    ELSE LET s1 == IF s.tab = "rights_splits" THEN P_handleSaveSplits(s) ELSE s
             s2 == IF s.next # NoNav THEN P_runNav(s1, s.next) ELSE s1
         IN P_handleCancelNavigation(s2)

\* handleSaveAndNavigate after  await forceSave(): its closure saw activeTab
\* === 'studio' and the nextNavigationAction of the render that was clicked
P_saveAndNavigateResume(s, item) ==
    LET s1 == [s EXCEPT !.dirty = FALSE]
        s2 == IF item.nav # NoNav THEN P_runNav(s1, item.nav) ELSE s1
    IN P_handleCancelNavigation(s2)

\* the state a render of the mounted view closes over
P_cur ==
    [view |-> view, tab |-> pActiveTab, sel |-> pSelectedBookId, col |-> pCollaborators,
     modal |-> pNavModalOpen, next |-> pNextNav, dirty |-> pManuscriptDirty,
     text |-> pManuscriptText, last |-> pLastManuscriptState, idx |-> pActiveChapterIndex,
     bks |-> books, heap |-> rowObjs, toasts |-> toasts, loading |-> loading,
     pend |-> pending, saved |-> lastSaved, saves |-> 0, replaced |-> {}, edited |-> FALSE]

\* useState initial values
P_initial(s) ==
    [s EXCEPT !.tab = "studio", !.sel = <<>>, !.col = <<>>, !.modal = FALSE, !.next = NoNav,
              !.dirty = FALSE, !.text = "", !.last = Undefined, !.idx = 0]

\* The effects after a render: pre the state of the previous render, post the
\* state the handler produced, deps whether selectedBook is already known to
\* differ (mount).
P_effects(pre, post, deps) ==
    LET sel2 == IF Len(post.bks) > 0 /\ post.sel = <<>>
                THEN toString(post.bks[1].id) ELSE post.sel
        p2 == [post EXCEPT !.sel = sel2]
        b == P_selectedBook(p2)
        bookChanged == deps \/ b # P_selectedBook(pre)
                            \/ (b # 0 /\ p2.bks[b].id \in post.replaced)
        p3 == IF bookChanged \/ post.idx # pre.idx
              THEN IF b # 0
                   THEN [p2 EXCEPT !.last = Undefined,
                                   !.text = ChapterContentOr(p2.bks[b].chapters, p2.idx),
                                   !.dirty = FALSE]
                   ELSE [p2 EXCEPT !.last = Undefined, !.text = ""]
              ELSE p2
    IN IF (bookChanged \/ post.tab # pre.tab) /\ b # 0 /\ p3.tab = "rights_splits"
       THEN [p3 EXCEPT !.col = p3.bks[b].splits]
       ELSE p3

P_mount(s) ==
    LET s0 == P_initial(s)
        s1 == IF onboarding.activeTabOverride # NoOverride
              THEN [s0 EXCEPT !.tab = onboarding.activeTabOverride] ELSE s0
    IN P_effects(s0, s1, TRUE)

\* a continuation whose component instance is gone: its set-calls on the
\* component are dropped, its calls on the store are not
P_storeOnly(pre, post) ==
    [pre EXCEPT !.view = post.view, !.bks = post.bks, !.toasts = post.toasts,
                !.loading = post.loading, !.pend = post.pend, !.saved = post.saved, !.saves = post.saves,
                !.replaced = post.replaced, !.edited = post.edited]

P_after(pre, post) ==
    IF post.view = "PUBLISHING" THEN P_effects(pre, post, FALSE)
    ELSE [P_initial(post) EXCEPT !.pend = Orphan(@)]

P_commit(fin, op) ==
    /\ view' = fin.view
    /\ pActiveTab' = fin.tab
    /\ pSelectedBookId' = fin.sel
    /\ pCollaborators' = fin.col
    /\ pNavModalOpen' = fin.modal
    /\ pNextNav' = fin.next
    /\ pManuscriptDirty' = fin.dirty
    /\ pManuscriptText' = fin.text
    /\ pLastManuscriptState' = fin.last
    /\ pActiveChapterIndex' = fin.idx
    /\ books' = fin.bks
    /\ rowObjs' = Collect(fin.heap, releases, fin.bks, mCollaborators, fin.col)
    /\ toasts' = fin.toasts
    /\ Len(fin.toasts) <= MaxToasts
    /\ loading' = fin.loading
    /\ pending' = fin.pend
    /\ Len(SelectSeq(fin.pend, Timed)) <= MaxPending
    /\ lastSaved' = fin.saved
    /\ savesInStep' = fin.saves
    /\ sinceEdit' = IF fin.edited THEN 0 ELSE sinceEdit
    /\ lastOp' = op
    /\ UNCHANGED <<isInitialized, onboarding, releases, musicTasks, pubTasks, now,
                   musicVars>>

(***************************************************************************)
(* Events of the publishing view.                                          *)
(***************************************************************************)
P_ready == isInitialized /\ view = "PUBLISHING" /\ ~pNavModalOpen

P_modal == isInitialized /\ view = "PUBLISHING" /\ pNavModalOpen

\* a new capture: closures still awaiting hold an older captured action
Superseded(pend) == [i \in DOMAIN pend |-> [pend[i] EXCEPT !.entry = FALSE]]

\* DashboardCard "Digital Publishing": setView('PUBLISHING') mounts the view
P_Open ==
    /\ isInitialized /\ view = "DASHBOARD"
    /\ P_commit(P_mount([P_cur EXCEPT !.view = "PUBLISHING"]), "P_Open")
    /\ lastNav' = NoNav /\ GuardIdle /\ UNCHANGED edits

P_Navigate(action, op) ==
    /\ P_ready
    /\ LET post == P_handleNavigate(P_cur, action)
       IN P_commit(P_after(P_cur, IF P_isDirty(P_cur)
                                  THEN [post EXCEPT !.pend = Superseded(@)] ELSE post), op)
    /\ lastNav' = action
    /\ IF P_isDirty(P_cur) THEN GuardCaptured ELSE GuardIdle
    /\ UNCHANGED edits

P_TabClick == \E tab \in PubTabs : P_Navigate(NavTab(tab), "P_TabClick")

P_Back == P_Navigate(NavBack, "P_Back")

\* the book <select> of the studio, distribution and rights tabs
P_SelectBook ==
    /\ P_selectedBook(P_cur) # 0
    /\ \E i \in DOMAIN books :
          /\ toString(books[i].id) # pSelectedBookId
          /\ P_Navigate(NavBook(toString(books[i].id)), "P_SelectBook")

\* a chapter of the chapter list is clicked
P_ChapterClick ==
    /\ pActiveTab = "studio" /\ P_selectedBook(P_cur) # 0
    /\ \E index \in 0..(Len(books[P_selectedBook(P_cur)].chapters) - 1) :
          P_Navigate(NavChapter(index), "P_ChapterClick")

\* "New Chapter"
P_NewChapter ==
    /\ pActiveTab = "studio" /\ P_selectedBook(P_cur) # 0
    /\ Len(books[P_selectedBook(P_cur)].chapters) < MaxChapters
    /\ P_Navigate(NavNewChapter(books[P_selectedBook(P_cur)].id,
                                books[P_selectedBook(P_cur)].chapters), "P_NewChapter")

\* typing in the manuscript editor
P_ManuscriptChange ==
    /\ P_ready /\ pActiveTab = "studio" /\ P_selectedBook(P_cur) # 0
    /\ edits < MaxPubEdits /\ edits' = edits + 1
    /\ \E newContent \in TypedTexts :
          /\ newContent # pManuscriptText
          /\ P_commit(P_after(P_cur, P_handleManuscriptChange(P_cur, newContent)),
                      "P_ManuscriptChange")
    /\ lastNav' = NoNav /\ GuardIdle

\* "Upload .txt"
P_FileUpload ==
    /\ P_ready /\ pActiveTab = "studio" /\ P_selectedBook(P_cur) # 0
    /\ edits < MaxPubEdits /\ edits' = edits + 1
    /\ \E text \in UploadedTexts :
          P_commit(P_after(P_cur, P_handleFileUpload(P_cur, text)), "P_FileUpload")
    /\ lastNav' = NoNav /\ GuardIdle

P_AddCollaborator ==
    /\ P_ready /\ pActiveTab = "rights_splits" /\ P_selectedBook(P_cur) # 0
    /\ FreeAddrs(rowObjs) # {}
    /\ P_commit(P_after(P_cur, P_handleAddCollaborator(P_cur)), "P_AddCollaborator")
    /\ lastNav' = NoNav /\ GuardIdle /\ UNCHANGED edits

P_CollaboratorChange ==
    /\ P_ready /\ pActiveTab = "rights_splits" /\ P_selectedBook(P_cur) # 0
    /\ edits < MaxPubEdits /\ edits' = edits + 1
    /\ \E index \in 0..(Len(pCollaborators) - 1) :
          \/ \E value \in PubNames :
                /\ value # rowObjs[pCollaborators[index + 1]].name
                /\ P_commit(P_after(P_cur, P_handleCollaboratorChange(P_cur, index, "name", value)),
                            "P_CollaboratorChange")
          \/ \E value \in PubShares :
                /\ value # rowObjs[pCollaborators[index + 1]].share
                /\ P_commit(P_after(P_cur, P_handleCollaboratorChange(P_cur, index, "share", value)),
                            "P_CollaboratorChange")
    /\ lastNav' = NoNav /\ GuardIdle

\* "Save Splits" is disabled unless totalSplit === 100
P_SaveSplits ==
    /\ P_ready /\ pActiveTab = "rights_splits" /\ P_selectedBook(P_cur) # 0
    /\ P_totalSplit(P_cur) = 100 * 1000
    /\ P_commit(P_after(P_cur, P_handleSaveSplits(P_cur)), "P_SaveSplits")
    /\ lastNav' = NoNav /\ GuardIdle /\ UNCHANGED edits

P_Cancel ==
    /\ P_modal
    /\ P_commit(P_after(P_cur, P_handleCancelNavigation(P_cur)), "P_Cancel")
    /\ lastNav' = NoNav /\ GuardCancelled /\ UNCHANGED edits

P_Discard ==
    /\ P_modal
    /\ P_commit(P_after(P_cur, P_handleDiscardAndNavigate(P_cur)), "P_Discard")
    /\ lastNav' = NoNav /\ GuardExecuted(pNextNav) /\ UNCHANGED edits

P_SaveAndNavigate ==
    /\ P_modal
    /\ P_commit(P_after(P_cur, P_handleSaveAndNavigate(P_cur)), "P_SaveAndNavigate")
    /\ lastNav' = NoNav /\ UNCHANGED edits
    /\ IF pActiveTab = "studio" /\ P_selectedBook(P_cur) # 0
       THEN UNCHANGED <<navExecs, navCancelled, execAfterCancel>>
       ELSE GuardExecuted(pNextNav)

\* A continuation resumes with the item it was waiting on removed.
P_resume(i, post, op) ==
    /\ P_commit(IF view = "PUBLISHING"
                THEN P_after(P_cur, IF pending[i].alive THEN post ELSE P_storeOnly(P_cur, post))
                ELSE P_storeOnly(P_cur, post), op)
    /\ lastNav' = NoNav /\ UNCHANGED edits

P_without(i) == [P_cur EXCEPT !.pend = Remove(pending, i)]

P_ReaderOnload ==
    \E i \in DOMAIN pending :
       /\ pending[i].kind = "reader" /\ Due(pending, i)
       /\ P_resume(i, P_readerOnload(P_without(i), pending[i]), "P_ReaderOnload")
       /\ GuardIdle

P_UploadResume ==
    \E i \in DOMAIN pending :
       /\ pending[i].kind = "upload" /\ Due(pending, i)
       /\ P_resume(i, P_uploadResume(P_without(i), pending[i]), "P_UploadResume")
       /\ GuardIdle

P_NewChapterResume ==
    \E i \in DOMAIN pending :
       /\ pending[i].kind = "newChapter" /\ Due(pending, i)
       /\ P_resume(i, P_newChapterResume(P_without(i), pending[i]), "P_NewChapterResume")
       /\ GuardIdle

P_SaveAndNavigateResume ==
    \E i \in DOMAIN pending :
       /\ pending[i].kind = "saveAndNavigate" /\ Due(pending, i)
       /\ P_resume(i, P_saveAndNavigateResume(P_without(i), pending[i]),
                   "P_SaveAndNavigateResume")
       /\ IF pending[i].entry THEN GuardExecuted(pending[i].nav)
          ELSE UNCHANGED <<navExecs, navCancelled, execAfterCancel>>

\* the timer of updateChapterContent fires: get()._saveState()
DebouncedSave ==
    \E i \in DOMAIN pending :
       /\ pending[i].kind = "debounce" /\ Due(pending, i)
       /\ pending' = Remove(pending, i)
       /\ lastSaved' = saveState(releases, musicTasks, books, pubTasks, onboarding, rowObjs)
       /\ savesInStep' = 1
       /\ lastOp' = "DebouncedSave" /\ lastNav' = NoNav
       /\ UNCHANGED <<storeVars, musicVars, pubVars, navExecs, navCancelled, execAfterCancel,
                      sinceEdit, edits>>

\* 250 ms pass with nothing due
Tick ==
    /\ pending # <<>>
    /\ \A i \in DOMAIN pending : Timed(pending[i]) => pending[i].rem > 0
    /\ pending' = [i \in DOMAIN pending |->
                      IF Timed(pending[i]) THEN [pending[i] EXCEPT !.rem = @ - 1] ELSE pending[i]]
    /\ sinceEdit' = IF sinceEdit < DebounceTicks THEN sinceEdit + 1 ELSE sinceEdit
    /\ savesInStep' = 0
    /\ lastOp' = "Tick" /\ lastNav' = NoNav
    /\ UNCHANGED <<storeVars, musicVars, pubVars, lastSaved, navExecs, navCancelled,
                   execAfterCancel, edits>>

(***************************************************************************)
(* The store's mutations called directly.  Each is the function up to its  *)
(* first await: set(), then get()._saveState() reading the state set() left.*)
(***************************************************************************)
MaxCalls == 3
MaxTimers == 2
MaxNow == 6

St_cur ==
    [view |-> view, onb |-> onboarding, rels |-> releases, mtasks |-> musicTasks,
     bks |-> books, ptasks |-> pubTasks, heap |-> rowObjs, toasts |-> toasts,
     pend |-> pending, saved |-> lastSaved, saves |-> 0, edited |-> FALSE]

St_saveState(s) ==
    [s EXCEPT !.saved = saveState(s.rels, s.mtasks, s.bks, s.ptasks, s.onb, s.heap),
              !.saves = @ + 1]

St_skipTour(s) ==
    LET s1 == St_saveState([s EXCEPT !.view = "DASHBOARD",
                                     !.onb = [tourStepIndex |-> -1, onboardingComplete |-> TRUE,
                                              activeTabOverride |-> NoOverride]])
    IN [s1 EXCEPT !.pend = Append(@, Item("skipTour", SaveDelayTicks))]

\* skipTour after its await
St_skipTourResume(s) == [s EXCEPT !.toasts = addToast(@, "success", now)]

St_addRelease(s, splits, t) == St_saveState([s EXCEPT !.rels = addRelease(@, splits, t)])

St_updateMusicSplits(s, releaseId, splits) ==
    St_saveState([s EXCEPT !.rels = updateMusicSplits(@, releaseId, splits)])

\* an addMusicTask that reads the snapshot before its set()
St_addMusicTask_saveFirst(s, t) == [St_saveState(s) EXCEPT !.mtasks = addTask(@, t)]

St_addMusicTask(s, t) == St_saveState([s EXCEPT !.mtasks = addTask(@, t)])

St_toggleMusicTask(s, id) == St_saveState([s EXCEPT !.mtasks = toggleTask(@, id)])

St_addBook(s, bookData, t) == St_saveState([s EXCEPT !.bks = addBook(@, bookData, t)])

St_updateBook(s, bks2) == St_saveState([s EXCEPT !.bks = bks2])

St_updateChapterContent(s, bookId, chapterIndex, content) ==
    [s EXCEPT !.bks = updateChapterContent(@, bookId, chapterIndex, content),
              !.pend = Append(@, Item("debounce", DebounceTicks)),
              !.edited = TRUE]

St_addPublishingTask(s, t) == St_saveState([s EXCEPT !.ptasks = addTask(@, t)])

St_togglePublishingTask(s, id) == St_saveState([s EXCEPT !.ptasks = toggleTask(@, id)])

St_commit(fin, op) ==
    /\ view' = fin.view
    /\ onboarding' = fin.onb
    /\ releases' = fin.rels
    /\ musicTasks' = fin.mtasks
    /\ books' = fin.bks
    /\ pubTasks' = fin.ptasks
    /\ rowObjs' = Collect(fin.heap, fin.rels, fin.bks, mCollaborators, pCollaborators)
    /\ toasts' = fin.toasts
    /\ Len(fin.toasts) <= MaxToasts
    /\ pending' = fin.pend
    /\ Len(fin.pend) <= MaxTimers
    /\ lastSaved' = fin.saved
    /\ savesInStep' = fin.saves
    /\ sinceEdit' = IF fin.edited THEN 0 ELSE sinceEdit
    /\ lastOp' = op
    /\ UNCHANGED <<isInitialized, loading, now, musicVars, pubVars, lastNav, navExecs,
                   navCancelled, execAfterCancel>>

\* a caller of the store: one more call, while the budget lasts
St_call(fin, op) == isInitialized /\ edits < MaxCalls /\ edits' = edits + 1 /\ St_commit(fin, op)

SplitsGiven(s) ==
    {[heap |-> s.heap, splits |-> <<>>]}
    \cup (IF FreeAddrs(s.heap) = {} THEN {}
          ELSE {[heap |-> [s.heap EXCEPT ![NewAddr(s.heap)] = Row(sA, s100)],
                 splits |-> <<NewAddr(s.heap)>>]})

ChaptersGiven == {<<>>, <<[title |-> Title("Chapter", 1), content |-> "x"]>>}

Call_addRelease ==
    \E g \in SplitsGiven(St_cur) :
       St_call(St_addRelease([St_cur EXCEPT !.heap = g.heap], g.splits, now), "addRelease")

Call_updateMusicSplits ==
    \E i \in DOMAIN releases : \E g \in SplitsGiven(St_cur) :
       St_call(St_updateMusicSplits([St_cur EXCEPT !.heap = g.heap], releases[i].id, g.splits),
               "updateMusicSplits")

Call_addMusicTask == St_call(St_addMusicTask(St_cur, now), "addMusicTask")

Call_toggleMusicTask ==
    \E i \in DOMAIN musicTasks :
       St_call(St_toggleMusicTask(St_cur, musicTasks[i].id), "toggleMusicTask")

Call_addBook ==
    \E ch \in ChaptersGiven :
       St_call(St_addBook(St_cur, [splits |-> <<>>, chapters |-> ch, rights |-> NoRights,
                                   blurb |-> "", coverImageUrl |-> ""], now),
               "addBook")

Call_updateBook ==
    \E i \in DOMAIN books :
       \/ \E ch \in ChaptersGiven :
             St_call(St_updateBook(St_cur, updateBookChapters(books, books[i].id, ch)), "updateBook")
       \/ \E k \in RightKeys :
             St_call(St_updateBook(St_cur, updateBookRights(books, books[i].id,
                                      [books[i].rights EXCEPT ![k] = ~@])), "updateBook")

Call_updateChapterContent ==
    \E i \in DOMAIN books : \E chapterIndex \in 0..(Len(books[i].chapters) - 1) :
       \E content \in {"x", "y"} :
          /\ content # books[i].chapters[chapterIndex + 1].content
          /\ St_call(St_updateChapterContent(St_cur, books[i].id, chapterIndex, content),
                     "updateChapterContent")

Call_addPublishingTask == St_call(St_addPublishingTask(St_cur, now), "addPublishingTask")

Call_togglePublishingTask ==
    \E i \in DOMAIN pubTasks :
       St_call(St_togglePublishingTask(St_cur, pubTasks[i].id), "togglePublishingTask")

Call_skipTour == St_call(St_skipTour(St_cur), "skipTour")

SkipTourResume ==
    \E i \in DOMAIN pending :
       /\ pending[i].kind = "skipTour" /\ Due(pending, i)
       /\ St_commit(St_skipTourResume([St_cur EXCEPT !.pend = Remove(pending, i)]),
                    "SkipTourResume")
       /\ UNCHANGED edits

\* Date.now() reads a later millisecond
ClockAdvance ==
    /\ now < MaxNow
    /\ now' = now + 1
    /\ lastOp' = "ClockAdvance" /\ savesInStep' = 0
    /\ UNCHANGED <<isInitialized, view, loading, toasts, onboarding, releases, musicTasks, books,
                   pubTasks, rowObjs, musicVars, pubVars, pending, lastSaved, lastNav, navExecs,
                   navCancelled, execAfterCancel, sinceEdit, edits>>

(***************************************************************************)
(* Initial states: the store after initializeApp has loaded a snapshot.    *)
(***************************************************************************)
InitHist ==
    /\ lastSaved = saveState(releases, musicTasks, books, pubTasks, onboarding, rowObjs)
    /\ savesInStep = 0
    /\ lastOp = "init"
    /\ lastNav = NoNav
    /\ navExecs = 0
    /\ navCancelled = FALSE
    /\ execAfterCancel = FALSE
    /\ sinceEdit = 0
    /\ edits = 0

InitViews ==
    /\ mActiveTab = "studio" /\ mSelectedReleaseId = <<>> /\ mCollaborators = <<>>
    /\ mNavModalOpen = FALSE /\ mNextNav = NoNav
    /\ mMood = "" /\ mTags = ""
    /\ pActiveTab = "studio" /\ pSelectedBookId = <<>> /\ pCollaborators = <<>>
    /\ pNavModalOpen = FALSE /\ pNextNav = NoNav
    /\ pManuscriptDirty = FALSE /\ pManuscriptText = "" /\ pLastManuscriptState = Undefined
    /\ pActiveChapterIndex = 0
    /\ pending = <<>>

InitLoaded ==
    /\ isInitialized = TRUE
    /\ view = "DASHBOARD"
    /\ loading = [k \in LoadingKeys |-> FALSE]
    /\ toasts = <<>>
    /\ onboarding = [tourStepIndex |-> -1, onboardingComplete |-> TRUE,
                     activeTabOverride |-> NoOverride]
    /\ musicTasks = <<>>
    /\ pubTasks = <<>>
    /\ now = 5

\* Two releases: splits [{A,60},{B,40}] and no splits yet.
InitMusic ==
    /\ InitLoaded /\ InitViews
    /\ releases = <<[id |-> 1, status |-> "Live", splits |-> <<1, 2>>],
                    [id |-> 2, status |-> "Live", splits |-> <<>>]>>
    /\ books = <<>>
    /\ rowObjs = [a \in Addr |-> CASE a = 1 -> Row(sA, s60) [] a = 2 -> Row(sB, s40)
                                   [] OTHER -> FreeRow]
    /\ InitHist

\* Two books: one chapter "a" with splits [{A,100}], and an empty draft.
InitPub ==
    /\ InitLoaded /\ InitViews
    /\ releases = <<>>
    /\ books = <<[id |-> 1, splits |-> <<1>>, rights |-> NoRights, blurb |-> "",
                  coverImageUrl |-> "",
                  chapters |-> <<[title |-> Title("Chapter", 1), content |-> "a"]>>],
                 [id |-> 2, splits |-> <<>>, rights |-> NoRights, blurb |-> "",
                  coverImageUrl |-> "",
                  chapters |-> <<[title |-> Title("Chapter", 1), content |-> ""]>>]>>
    /\ rowObjs = [a \in Addr |-> IF a = 1 THEN Row(sA, s100) ELSE FreeRow]
    /\ InitHist

\* One release, one book with one chapter, the tour not yet finished.
InitStore ==
    /\ InitViews
    /\ isInitialized = TRUE
    /\ view = "DASHBOARD"
    /\ loading = [k \in LoadingKeys |-> FALSE]
    /\ toasts = <<>>
    /\ onboarding = [tourStepIndex |-> -1, onboardingComplete |-> FALSE,
                     activeTabOverride |-> NoOverride]
    /\ musicTasks = <<>>
    /\ pubTasks = <<>>
    /\ now = 5
    /\ releases = <<[id |-> 1, status |-> "Live", splits |-> <<1>>]>>
    /\ books = <<[id |-> 2, splits |-> <<>>, rights |-> NoRights, blurb |-> "",
                  coverImageUrl |-> "",
                  chapters |-> <<[title |-> Title("Chapter", 1), content |-> "a"]>>]>>
    /\ rowObjs = [a \in Addr |-> IF a = 1 THEN Row(sA, s100) ELSE FreeRow]
    /\ InitHist

NextMusic ==
    \/ M_Open
    \/ M_TabClick
    \/ M_Back
    \/ M_SelectRelease
    \/ M_AddCollaborator
    \/ M_CollaboratorChange
    \/ M_SaveSplits
    \/ M_Cancel
    \/ M_Discard
    \/ M_SaveAndNavigate
    \/ DismissToast

SpecMusic == InitMusic /\ [][NextMusic]_vars

\* the studio: manuscript, chapters, uploads and the guard
NextPub ==
    \/ P_Open
    \/ P_TabClick
    \/ P_Back
    \/ P_SelectBook
    \/ P_ChapterClick
    \/ P_NewChapter
    \/ P_ManuscriptChange
    \/ P_FileUpload
    \/ P_Cancel
    \/ P_Discard
    \/ P_SaveAndNavigate
    \/ P_ReaderOnload
    \/ P_UploadResume
    \/ P_NewChapterResume
    \/ P_SaveAndNavigateResume
    \/ DebouncedSave
    \/ Tick
    \/ DismissToast

SpecPub == InitPub /\ [][NextPub]_vars

\* either view, from either snapshot
SpecViews == (InitMusic \/ InitPub) /\ [][NextMusic \/ NextPub]_vars

(***************************************************************************)
(* AI handlers.  Each sets its loading flag, awaits the generation call    *)
(* inside try, reports the outcome with a toast, and clears the flag in    *)
(* finally.  The awaited call is a pending item of kind "generate" whose   *)
(* key is the handler's loading flag and whose book, idx and text are the  *)
(* selectedBook.id, activeChapterIndex and manuscriptText of the render    *)
(* the handler was created in.                                             *)
(***************************************************************************)
\* generation calls issued in one run
MaxAiCalls == 2

AiTexts == {"r"}

\* JSON.parse(response.text) of handleGenerateMetadata: an object with or
\* without the keys asked for
MetadataResponses == {[mood |-> "m", tags |-> "t"], [mood |-> Undefined, tags |-> Undefined]}

\* value || ''
OrEmpty(value) == IF value = Undefined THEN "" ELSE value

AiCall(key) == [Item("generate", 0) EXCEPT !.key = key]

\* catch { addToast(.., 'error') } finally { setLoading(key, false) }
catchFinally_keepsLoading(s, key) == [s EXCEPT !.toasts = addToast(@, "error", now)]

catchFinally(s, key) ==
    [s EXCEPT !.toasts = addToast(@, "error", now), !.loading[key] = FALSE]

\* addToast(.., 'success'), then finally { setLoading(key, false) }
successFinally(s, key) ==
    [s EXCEPT !.toasts = addToast(@, "success", now), !.loading[key] = FALSE]

\* artist, title and genre keep their useState values, so the early return
\* of the handler is not taken
M_handleGenerateMetadata(s) ==
    [s EXCEPT !.loading["metadata"] = TRUE, !.pend = Append(@, AiCall("metadata"))]

M_metadataFulfilled(s, data) ==
    successFinally([s EXCEPT !.mood = OrEmpty(data.mood), !.tags = OrEmpty(data.tags)],
                   "metadata")

M_storeOnly(pre, post) ==
    [pre EXCEPT !.toasts = post.toasts, !.loading = post.loading, !.pend = post.pend]

P_aiCall(s, key) ==
    [AiCall(key) EXCEPT !.book = IF P_selectedBook(s) # 0 THEN s.bks[P_selectedBook(s)].id ELSE 0,
                        !.idx = s.idx, !.text = s.text]

\* applyAiChange as the awaiting handler holds it: selectedBook, manuscriptText
\* and activeChapterIndex are those of the render the handler was created in
P_applyAiChange_toSelection(s, item, newText) ==
    IF P_selectedBook(s) # 0
    THEN P_updateChapterContent([s EXCEPT !.last = s.text, !.text = newText, !.dirty = TRUE],
                                s.bks[P_selectedBook(s)].id, s.idx, newText)
    ELSE s

P_applyAiChange(s, item, newText) ==
    IF item.book # 0
    THEN P_updateChapterContent([s EXCEPT !.last = item.text, !.text = newText, !.dirty = TRUE],
                                item.book, item.idx, newText)
    ELSE s

P_handleUndo(s) ==
    IF P_selectedBook(s) # 0 /\ s.last # Undefined
    THEN LET s1 == [s EXCEPT !.text = s.last, !.dirty = TRUE, !.last = Undefined,
                             !.toasts = addToast(@, "success", now)]
         IN P_updateChapterContent(s1, s.bks[P_selectedBook(s)].id, s.idx, s.last)
    ELSE s

P_handleProofread(s) ==
    IF s.text = "" THEN s
    ELSE [s EXCEPT !.loading["proofread"] = TRUE, !.pend = Append(@, P_aiCall(s, "proofread"))]

P_handleEnrichProse(s) ==
    IF s.text = "" THEN s
    ELSE [s EXCEPT !.loading["enrichment"] = TRUE, !.pend = Append(@, P_aiCall(s, "enrichment"))]

\* the analysis text and its modal are not part of the state
P_handlePlotAnalysis(s) ==
    IF s.text = "" THEN s
    ELSE [s EXCEPT !.loading["plotAnalysis"] = TRUE,
                   !.pend = Append(@, P_aiCall(s, "plotAnalysis"))]

\* the keydown listener of the manuscript editor
P_handleKeyDown(s, key) ==
    IF s.text = "" THEN s
    ELSE CASE key = "p" -> P_handleProofread(s)
           [] key = "i" -> P_handlePlotAnalysis(s)
           [] key = "e" -> P_handleEnrichProse(s)
           [] OTHER -> s

P_handleGenerateCover(s) ==
    IF P_selectedBook(s) = 0 THEN s
    ELSE [s EXCEPT !.loading["bookCover"] = TRUE, !.pend = Append(@, P_aiCall(s, "bookCover"))]

P_handleGenerateBlurb(s) ==
    IF P_selectedBook(s) = 0 \/ s.text = "" THEN s
    ELSE [s EXCEPT !.loading["blurb"] = TRUE, !.pend = Append(@, P_aiCall(s, "blurb"))]

\* the try block after the generation call resolved, up to its next await
P_generateFulfilled(s, item, text) ==
    CASE item.key \in {"proofread", "enrichment"} ->
            successFinally(P_applyAiChange(s, item, text), item.key)
      [] item.key = "plotAnalysis" -> [s EXCEPT !.loading["plotAnalysis"] = FALSE]
      [] item.key \in {"blurb", "bookCover"} ->
            LET field == IF item.key = "blurb" THEN "blurb" ELSE "coverImageUrl"
                s1 == P_updateBook(s, updateBookField(s.bks, item.book, field, text), item.book)
            IN [s1 EXCEPT !.pend = Append(@, [Item("updateBook", SaveDelayTicks) EXCEPT
                                                 !.alive = item.alive, !.key = item.key])]

\* name of the step that ends a generation call, per handler
OpFulfilled(key) ==
    CASE key = "metadata" -> "M_MetadataFulfilled"
      [] key = "proofread" -> "P_ProofreadFulfilled"
      [] key = "enrichment" -> "P_EnrichFulfilled"
      [] key = "blurb" -> "P_BlurbFulfilled"
      [] key = "bookCover" -> "P_CoverFulfilled"
      [] key = "plotAnalysis" -> "P_PlotAnalysisFulfilled"

M_resume(i, post, op) ==
    /\ M_commit(IF view = "MUSIC"
                THEN M_after(M_cur, IF pending[i].alive THEN post ELSE M_storeOnly(M_cur, post))
                ELSE M_storeOnly(M_cur, post), op)
    /\ lastNav' = NoNav
    /\ UNCHANGED <<edits, navExecs, navCancelled, execAfterCancel>>

M_without(i) == [M_cur EXCEPT !.pend = Remove(pending, i)]

\* "Generate Metadata with AI", disabled while loading.metadata
M_GenerateMetadata ==
    /\ M_ready /\ mActiveTab = "studio" /\ ~loading["metadata"]
    /\ M_commit(M_after(M_cur, M_handleGenerateMetadata(M_cur)), "M_GenerateMetadata")
    /\ edits < MaxAiCalls /\ edits' = edits + 1
    /\ lastNav' = NoNav /\ GuardIdle

M_MetadataFulfilled ==
    \E i \in DOMAIN pending :
       /\ pending[i].kind = "generate" /\ pending[i].key = "metadata"
       /\ \E data \in MetadataResponses :
             M_resume(i, M_metadataFulfilled(M_without(i), data), OpFulfilled("metadata"))

\* the call rejected, or JSON.parse(response.text) threw
M_MetadataFailed ==
    \E i \in DOMAIN pending :
       /\ pending[i].kind = "generate" /\ pending[i].key = "metadata"
       /\ M_resume(i, catchFinally(M_without(i), "metadata"), "M_MetadataFailed")

\* the Proofread and Enrich buttons of the editor toolbar, or Ctrl+P / Ctrl+E
\* in the editor
P_Proofread ==
    /\ P_ready /\ pActiveTab = "studio" /\ pManuscriptText # ""
    /\ ~loading["proofread"] /\ Len(pending) < MaxPending
    /\ P_commit(P_after(P_cur, P_handleProofread(P_cur)), "P_Proofread")
    /\ edits < MaxAiCalls /\ edits' = edits + 1
    /\ lastNav' = NoNav /\ GuardIdle

P_EnrichProse ==
    /\ P_ready /\ pActiveTab = "studio" /\ pManuscriptText # ""
    /\ ~loading["enrichment"] /\ Len(pending) < MaxPending
    /\ P_commit(P_after(P_cur, P_handleEnrichProse(P_cur)), "P_EnrichProse")
    /\ edits < MaxAiCalls /\ edits' = edits + 1
    /\ lastNav' = NoNav /\ GuardIdle

\* the Undo button, rendered while lastManuscriptState !== null
P_Undo ==
    /\ P_ready /\ pActiveTab = "studio" /\ pLastManuscriptState # Undefined
    /\ P_commit(P_after(P_cur, P_handleUndo(P_cur)), "P_Undo")
    /\ lastNav' = NoNav /\ GuardIdle /\ UNCHANGED edits

\* AIToolCard buttons of the marketing tab, disabled while their flag is set
P_GenerateCover ==
    /\ P_ready /\ pActiveTab = "marketing" /\ ~loading["bookCover"]
    /\ Len(pending) < MaxPending
    /\ P_selectedBook(P_cur) # 0
    /\ P_commit(P_after(P_cur, P_handleGenerateCover(P_cur)), "P_GenerateCover")
    /\ edits < MaxAiCalls /\ edits' = edits + 1
    /\ lastNav' = NoNav /\ GuardIdle

P_GenerateBlurb ==
    /\ P_ready /\ pActiveTab = "marketing" /\ ~loading["blurb"]
    /\ Len(pending) < MaxPending
    /\ P_selectedBook(P_cur) # 0 /\ pManuscriptText # ""
    /\ P_commit(P_after(P_cur, P_handleGenerateBlurb(P_cur)), "P_GenerateBlurb")
    /\ edits < MaxAiCalls /\ edits' = edits + 1
    /\ lastNav' = NoNav /\ GuardIdle

\* the tabs that hold the AI tools
AiTabs == {"studio", "marketing"}

P_AiTabClick == \E tab \in AiTabs : P_Navigate(NavTab(tab), "P_TabClick")

P_GenerateFulfilled ==
    \E i \in DOMAIN pending :
       /\ pending[i].kind = "generate" /\ pending[i].key # "metadata"
       /\ \E text \in AiTexts :
             P_resume(i, P_generateFulfilled(P_without(i), pending[i], text),
                      OpFulfilled(pending[i].key))
       /\ GuardIdle

\* the call rejected, or response.generatedImages[0] was undefined
P_GenerateFailed ==
    \E i \in DOMAIN pending :
       /\ pending[i].kind = "generate" /\ pending[i].key # "metadata"
       /\ P_resume(i, catchFinally(P_without(i), pending[i].key), "P_GenerateFailed")
       /\ GuardIdle

\* handleGenerateBlurb / handleGenerateCover after await updateBook(..)
P_UpdateBookResume ==
    \E i \in DOMAIN pending :
       /\ pending[i].kind = "updateBook" /\ Due(pending, i)
       /\ P_resume(i, successFinally(P_without(i), pending[i].key), "P_UpdateBookResume")
       /\ GuardIdle

NextAI ==
    \/ P_Open
    \/ P_AiTabClick
    \/ P_Back
    \/ P_SelectBook
    \/ P_ChapterClick
    \/ P_Proofread
    \/ P_EnrichProse
    \/ P_Undo
    \/ P_GenerateCover
    \/ P_GenerateBlurb
    \/ P_GenerateFulfilled
    \/ P_GenerateFailed
    \/ P_UpdateBookResume
    \/ P_Cancel
    \/ P_Discard
    \/ M_Open
    \/ M_Back
    \/ M_GenerateMetadata
    \/ M_MetadataFulfilled
    \/ M_MetadataFailed
    \/ DebouncedSave
    \/ Tick
    \/ DismissToast

\* Two books: chapters "a" and "b", and an empty draft.
InitAI ==
    /\ InitLoaded /\ InitViews
    /\ releases = <<>>
    /\ books = <<[id |-> 1, splits |-> <<>>, rights |-> NoRights, blurb |-> "",
                  coverImageUrl |-> "",
                  chapters |-> <<[title |-> Title("Chapter", 1), content |-> "a"],
                                 [title |-> Title("Chapter", 2), content |-> "b"]>>],
                 [id |-> 2, splits |-> <<>>, rights |-> NoRights, blurb |-> "",
                  coverImageUrl |-> "",
                  chapters |-> <<[title |-> Title("Chapter", 1), content |-> ""]>>]>>
    /\ rowObjs = [a \in Addr |-> FreeRow]
    /\ InitHist

\* the AI handlers of both views
SpecAI == InitAI /\ [][NextAI]_vars

\* Ctrl/Cmd + P, I or E in the manuscript editor
ShortcutKeys == {"p", "i", "e"}

P_KeyDown ==
    /\ P_ready /\ pActiveTab = "studio" /\ pManuscriptText # ""
    /\ \E key \in ShortcutKeys :
          P_commit(P_after(P_cur, P_handleKeyDown(P_cur, key)), "P_KeyDown")
    /\ edits < MaxAiCalls /\ edits' = edits + 1
    /\ lastNav' = NoNav /\ GuardIdle

NextKeys ==
    \/ P_Open
    \/ P_Back
    \/ P_SelectBook
    \/ P_ChapterClick
    \/ P_KeyDown
    \/ P_GenerateFulfilled
    \/ P_GenerateFailed
    \/ P_Cancel
    \/ P_Discard
    \/ DismissToast

\* the AI writing assistant driven from the keyboard
SpecKeys == InitAI /\ [][NextKeys]_vars

(***************************************************************************)
(* The Rights & Splits tab of the publishing view: the rights checkboxes   *)
(* and the collaborator buffer.                                            *)
(***************************************************************************)
\* the checkboxes the user toggles
ToggledKeys == {"audio"}

\* handleToggleRight: nothing follows its await
P_handleToggleRight(s, rightKey) ==
    IF P_selectedBook(s) = 0 THEN s
    ELSE LET book == s.bks[P_selectedBook(s)]
             updatedRights == [book.rights EXCEPT ![rightKey] = ~@]
         IN P_updateBook(s, updateBookRights(s.bks, book.id, updatedRights), book.id)

P_ToggleRight ==
    /\ P_ready /\ pActiveTab = "rights_splits" /\ P_selectedBook(P_cur) # 0
    /\ \E rightKey \in ToggledKeys :
          P_commit(P_after(P_cur, P_handleToggleRight(P_cur, rightKey)), "P_ToggleRight")
    /\ lastNav' = NoNav /\ GuardIdle /\ UNCHANGED edits

NextRights ==
    \/ P_Open
    \/ P_TabClick
    \/ P_Back
    \/ P_SelectBook
    \/ P_AddCollaborator
    \/ P_CollaboratorChange
    \/ P_SaveSplits
    \/ P_ToggleRight
    \/ P_Cancel
    \/ P_Discard
    \/ P_SaveAndNavigate
    \/ DismissToast

SpecRights == InitPub /\ [][NextRights]_vars

NextStore ==
    \/ Call_addRelease
    \/ Call_updateMusicSplits
    \/ Call_addMusicTask
    \/ Call_toggleMusicTask
    \/ Call_addBook
    \/ Call_updateBook
    \/ Call_updateChapterContent
    \/ Call_addPublishingTask
    \/ Call_togglePublishingTask
    \/ Call_skipTour
    \/ SkipTourResume
    \/ DebouncedSave
    \/ Tick
    \/ ClockAdvance
    \/ DismissToast

SpecStore == InitStore /\ [][NextStore]_vars

(***************************************************************************)
(* Application start: App's mount effect calls initializeApp, which awaits *)
(* api.fetchData; when the promise it returns is fulfilled, the effect's   *)
(* then-callback starts the tour unless onboarding is complete.            *)
(***************************************************************************)
App_cur ==
    [init |-> isInitialized, view |-> view, onb |-> onboarding, rels |-> releases,
     mtasks |-> musicTasks, bks |-> books, ptasks |-> pubTasks, heap |-> rowObjs,
     toasts |-> toasts, pend |-> pending, fulfilled |-> FALSE]

\* bodies GET /api/data answers with: an empty account before and after
\* onboarding, and an account with one release and one book
Snapshots ==
    {[rels |-> <<>>, mtasks |-> <<>>, bks |-> <<>>, ptasks |-> <<>>,
      heap |-> [a \in Addr |-> FreeRow], onboardingComplete |-> d] : d \in BOOLEAN}
    \cup {[rels |-> <<[id |-> 1, status |-> "Live", splits |-> <<1>>]>>,
           mtasks |-> <<>>,
           bks |-> <<[id |-> 2, splits |-> <<>>, rights |-> NoRights, blurb |-> "",
                      coverImageUrl |-> "",
                      chapters |-> <<[title |-> Title("Chapter", 1), content |-> "a"]>>]>>,
           ptasks |-> <<>>,
           heap |-> [a \in Addr |-> IF a = 1 THEN Row(sA, s100) ELSE FreeRow],
           onboardingComplete |-> TRUE]}

\* initializeApp up to  await api.fetchData()
App_initializeApp(s) == [s EXCEPT !.init = FALSE, !.pend = Append(@, Item("fetch", 0))]

\* initializeApp after the await, the fetch fulfilled with data
App_fetchResolved(s, data) ==
    [s EXCEPT !.rels = data.rels, !.mtasks = data.mtasks, !.bks = data.bks,
              !.ptasks = data.ptasks, !.heap = data.heap,
              !.onb = [@ EXCEPT !.onboardingComplete = data.onboardingComplete],
              !.init = TRUE, !.fulfilled = TRUE]

\* a catch block that marks the store ready without telling the user
App_fetchRejected_silent(s) == [s EXCEPT !.init = TRUE, !.fulfilled = TRUE]

\* a catch block that reports the failure and leaves the loader up
App_fetchRejected_staysLoading(s) ==
    [s EXCEPT !.toasts = addToast(@, "error", now), !.fulfilled = TRUE]

\* initializeApp's catch block
App_fetchRejected(s) ==
    [s EXCEPT !.toasts = addToast(@, "error", now), !.init = TRUE, !.fulfilled = TRUE]

startTour(s) ==
    IF ~s.onb.onboardingComplete
    THEN [s EXCEPT !.view = "DASHBOARD",
                   !.onb = [@ EXCEPT !.tourStepIndex = 0, !.activeTabOverride = NoOverride]]
    ELSE s

\* initializeApp().then(() => { if (!onboardingComplete) startTour(); })
App_then(s) ==
    IF s.fulfilled /\ ~s.onb.onboardingComplete THEN startTour(s) ELSE s

App_commit(fin, op) ==
    /\ isInitialized' = fin.init
    /\ view' = fin.view
    /\ onboarding' = fin.onb
    /\ releases' = fin.rels
    /\ musicTasks' = fin.mtasks
    /\ books' = fin.bks
    /\ pubTasks' = fin.ptasks
    /\ rowObjs' = fin.heap
    /\ toasts' = fin.toasts
    /\ pending' = fin.pend
    /\ lastOp' = op /\ savesInStep' = 0
    /\ UNCHANGED <<loading, now, musicVars, pubVars, lastNav, navExecs, navCancelled,
                   execAfterCancel, sinceEdit, edits>>

\* App's mount effect
App_Mount ==
    /\ lastOp = "init" /\ ~isInitialized /\ pending = <<>>
    /\ App_commit(App_initializeApp(App_cur), "App_Mount")
    /\ UNCHANGED lastSaved

FetchInFlight == \E i \in DOMAIN pending : pending[i].kind = "fetch"

\* fetch answers 2xx with a body; what the server holds is what is persisted
FetchResolves ==
    \E i \in DOMAIN pending : \E data \in Snapshots :
       /\ pending[i].kind = "fetch" /\ Due(pending, i)
       /\ App_commit(App_then(App_fetchResolved([App_cur EXCEPT !.pend = Remove(pending, i)],
                                                data)), "FetchResolves")
       /\ lastSaved' = saveState(data.rels, data.mtasks, data.bks, data.ptasks,
                                 [onboarding EXCEPT !.onboardingComplete = data.onboardingComplete],
                                 data.heap)

\* fetch rejects (network error), or answers non-2xx and fetchData throws
FetchRejects ==
    \E i \in DOMAIN pending :
       /\ pending[i].kind = "fetch" /\ Due(pending, i)
       /\ App_commit(App_then(App_fetchRejected([App_cur EXCEPT !.pend = Remove(pending, i)])),
                     "FetchRejects")
       /\ UNCHANGED lastSaved

\* the store as create() builds it, App rendered once, its effect not yet run
InitApp ==
    /\ InitViews
    /\ isInitialized = FALSE
    /\ view = "DASHBOARD"
    /\ loading = [k \in LoadingKeys |-> FALSE]
    /\ toasts = <<>>
    /\ onboarding = [tourStepIndex |-> -1, onboardingComplete |-> FALSE,
                     activeTabOverride |-> NoOverride]
    /\ releases = <<>> /\ musicTasks = <<>> /\ books = <<>> /\ pubTasks = <<>>
    /\ rowObjs = [a \in Addr |-> FreeRow]
    /\ now = 5
    /\ InitHist

NextApp ==
    \/ App_Mount
    \/ FetchResolves
    \/ FetchRejects
    \/ NextStore

SpecApp == InitApp /\ [][NextApp]_vars

\* the fetch settles, and the event loop then runs initializeApp's continuation
SpecAppLive == SpecApp /\ WF_vars(FetchResolves \/ FetchRejects)

(***************************************************************************)
(* The onboarding tour: OnboardingTour is rendered while tourStepIndex >= 0 *)
(* and offers Next (Finish on the last step) and Skip Tour.                *)
(***************************************************************************)
\* view and targetTab of each step
TOUR_STEPS ==
    <<[view |-> "DASHBOARD", targetTab |-> NoOverride],
      [view |-> "MUSIC", targetTab |-> NoOverride],
      [view |-> "MUSIC", targetTab |-> "studio"],
      [view |-> "DASHBOARD", targetTab |-> NoOverride],
      [view |-> "PUBLISHING", targetTab |-> NoOverride],
      [view |-> "PUBLISHING", targetTab |-> "studio"],
      [view |-> "DASHBOARD", targetTab |-> NoOverride]>>

\* a nextTourStep that does nothing on the last step
nextTourStep_staysOnLastStep(s) ==
    LET currentStepIndex == s.onb.tourStepIndex
    IN IF currentStepIndex < Len(TOUR_STEPS) - 1
       THEN LET nextStep == TOUR_STEPS[currentStepIndex + 2]
            IN [s EXCEPT !.view = nextStep.view,
                         !.onb = [@ EXCEPT !.tourStepIndex = currentStepIndex + 1,
                                           !.activeTabOverride = nextStep.targetTab]]
       ELSE s

\* TOUR_STEPS[k] of the source is TOUR_STEPS[k + 1] here
nextTourStep(s) ==
    LET currentStepIndex == s.onb.tourStepIndex
    IN IF currentStepIndex < Len(TOUR_STEPS) - 1
       THEN LET nextStep == TOUR_STEPS[currentStepIndex + 2]
            IN [s EXCEPT !.view = nextStep.view,
                         !.onb = [@ EXCEPT !.tourStepIndex = currentStepIndex + 1,
                                           !.activeTabOverride = nextStep.targetTab]]
       ELSE St_skipTour(s)

\* the Next / Finish button
Tour_Next ==
    /\ isInitialized /\ onboarding.tourStepIndex >= 0
    /\ St_commit(nextTourStep(St_cur), "Tour_Next")
    /\ UNCHANGED edits

\* the Skip Tour button
Tour_Skip ==
    /\ isInitialized /\ onboarding.tourStepIndex >= 0
    /\ St_commit(St_skipTour(St_cur), "Tour_Skip")
    /\ UNCHANGED edits

\* startTour called on the loaded store
Call_startTour ==
    /\ isInitialized
    /\ St_commit(startTour(St_cur), "startTour")
    /\ UNCHANGED edits

NextTour ==
    \/ App_Mount
    \/ FetchResolves
    \/ FetchRejects
    \/ Tour_Next
    \/ Tour_Skip
    \/ Call_startTour
    \/ SkipTourResume
    \/ Call_addMusicTask
    \/ Call_toggleMusicTask
    \/ Tick
    \/ ClockAdvance
    \/ DismissToast

SpecTour == InitApp /\ [][NextTour]_vars

(***************************************************************************)
(* Toasts with their timers.  In the specifications above the 5 s timer of *)
(* a Toast is folded into DismissToast, which may remove a toast at any    *)
(* moment.  Here each mounted Toast owns a pending item of kind "toast"    *)
(* whose idx is message.id; ToastContainer is part of App's render once    *)
(* isInitialized holds, so a toast is mounted by the render that follows   *)
(* the set() that queued it.                                               *)
(***************************************************************************)
ToastTicks == 20

MaxToastQueue == 2

ToastTypes == {"success", "error"}

\* a Toast whose effect never starts the timer
Toast_mount_noTimer(pend, id) == pend

\* Toast's effect: setTimeout(() => onDismiss(message.id), 5000)
Toast_mount(pend, id) == Append(pend, [Item("toast", ToastTicks) EXCEPT !.idx = id])

\* the effect's cleanup, run for every Toast that leaves the list
Toast_unmount(pend, id) == SelectSeq(pend, LAMBDA it : ~(it.kind = "toast" /\ it.idx = id))

\* ToastContainer's first render mounts a Toast for every queued message
RECURSIVE ToastContainer_mount(_, _)
ToastContainer_mount(pend, ts) ==
    IF ts = <<>> THEN pend
    ELSE ToastContainer_mount(Toast_mount(pend, Head(ts).id), Tail(ts))

T_frame ==
    /\ savesInStep' = 0 /\ lastNav' = NoNav
    /\ UNCHANGED <<isInitialized, view, loading, onboarding, releases, musicTasks, books,
                   pubTasks, rowObjs, now, musicVars, pubVars, lastSaved,
                   navExecs, navCancelled, execAfterCancel, sinceEdit, edits>>

\* a handler calls addToast(message, type); the new Toast mounts
T_AddToast ==
    /\ isInitialized /\ Len(toasts) < MaxToastQueue
    /\ \E type \in ToastTypes : toasts' = addToast(toasts, type, now)
    /\ pending' = Toast_mount(pending, now)
    /\ lastOp' = "T_AddToast" /\ T_frame

\* the close button of a Toast
T_Dismiss ==
    /\ isInitialized
    /\ \E i \in DOMAIN toasts :
          /\ toasts' = dismissToast(toasts, toasts[i].id)
          /\ pending' = Toast_unmount(pending, toasts[i].id)
    /\ lastOp' = "T_Dismiss" /\ T_frame

\* a Toast's timer fires
ToastExpire ==
    /\ \E i \in DOMAIN pending :
          /\ pending[i].kind = "toast" /\ pending[i].rem = 0
          /\ toasts' = dismissToast(toasts, pending[i].idx)
          /\ pending' = Toast_unmount(pending, pending[i].idx)
    /\ lastOp' = "ToastExpire" /\ T_frame

\* the startup fetch fails: the catch block queues its toast and sets
\* isInitialized, and the next render mounts ToastContainer
T_FetchRejects ==
    \E i \in DOMAIN pending :
       /\ pending[i].kind = "fetch" /\ Due(pending, i)
       /\ LET fin == App_then(App_fetchRejected([App_cur EXCEPT !.pend = Remove(pending, i)]))
          IN App_commit([fin EXCEPT !.pend = ToastContainer_mount(@, fin.toasts)],
                        "T_FetchRejects")
       /\ UNCHANGED lastSaved

NextToast ==
    \/ App_Mount
    \/ FetchResolves
    \/ T_FetchRejects
    \/ T_AddToast
    \/ T_Dismiss
    \/ ToastExpire
    \/ Tick
    \/ ClockAdvance

SpecToast == InitApp /\ [][NextToast]_vars

\* time passes, and a timer that is due fires
SpecToastLive == SpecToast /\ WF_vars(Tick) /\ WF_vars(ToastExpire)

(***************************************************************************)
(* The claims.                                                             *)
(***************************************************************************)
mDirty == M_isDirty(M_cur)

pDirty == P_isDirty(P_cur)

M_NavOps == {"M_TabClick", "M_Back"}

P_NavOps == {"P_TabClick", "P_Back", "P_SelectBook", "P_ChapterClick", "P_NewChapter"}

\* the step's action (lastNav') shows in the state the step leaves
M_NavRan ==
    CASE lastNav'.type = "tab" -> mActiveTab' = lastNav'.tab
      [] lastNav'.type = "view" -> view' = "DASHBOARD"
      [] OTHER -> TRUE

P_NavRan ==
    CASE lastNav'.type = "tab" -> pActiveTab' = lastNav'.tab
      [] lastNav'.type = "view" -> view' = "DASHBOARD"
      [] lastNav'.type = "book" -> pSelectedBookId' = lastNav'.id
      [] lastNav'.type = "chapter" -> pActiveChapterIndex' = lastNav'.idx
      [] lastNav'.type = "newChapter" ->
            Len(books'[FindById(books', lastNav'.book)].chapters) = Len(lastNav'.chapters) + 1
      [] OTHER -> TRUE

\* the step is the user's answer to the open prompt, or the end of the
\* Save & Continue the user answered it with
M_Resolving == lastOp' \in {"M_Cancel", "M_Discard", "M_SaveAndNavigate"}

P_Resolving ==
    \/ lastOp' \in {"P_Cancel", "P_Discard", "P_SaveAndNavigate"}
    \/ /\ lastOp' = "P_SaveAndNavigateResume"
       /\ \E i \in DOMAIN pending : pending[i].kind = "saveAndNavigate" /\ pending[i].entry

\* C1: handleNavigate, in both views, runs the action at once and opens no
\* prompt when isDirty is false; when isDirty is true it captures the action
\* unexecuted and opens the prompt; and while the prompt is open no step other
\* than the user's resolution changes the tab, the selected entity, the active
\* chapter or the store view.
C1_GuardedNavigation ==
    [][/\ lastOp' \in M_NavOps =>
             IF mDirty
             THEN mNavModalOpen' /\ mNextNav' = lastNav'
                  /\ UNCHANGED <<mActiveTab, mSelectedReleaseId, view>>
             ELSE ~mNavModalOpen' /\ M_NavRan
       /\ lastOp' \in P_NavOps =>
             IF pDirty
             THEN pNavModalOpen' /\ pNextNav' = lastNav'
                  /\ UNCHANGED <<pActiveTab, pSelectedBookId, pActiveChapterIndex, view>>
             ELSE ~pNavModalOpen' /\ P_NavRan
       /\ (mNavModalOpen /\ ~M_Resolving) => UNCHANGED <<mActiveTab, mSelectedReleaseId, view>>
       /\ (pNavModalOpen /\ ~P_Resolving) =>
             UNCHANGED <<pActiveTab, pSelectedBookId, pActiveChapterIndex, view>>]_vars

\* C2: in the music splits editor the selected release does not change, and
\* so the collaborator buffer is not reloaded, while the buffer is dirty and the
\* user has not been asked to Save, Discard or Cancel.
C2_ReleaseSwitchIsGuarded ==
    [][(mDirty /\ ~mNavModalOpen) => mSelectedReleaseId' = mSelectedReleaseId]_vars

\* C3: with [{A,60},{B,40}] saved for the selected release and the share of
\* row B changed to 41 through handleCollaboratorChange, isDirty is true.
C3_EditedShareIsDirty ==
    (/\ lastOp = "M_CollaboratorChange" /\ mActiveTab = "splits"
     /\ mSelectedReleaseId = <<"1">>
     /\ lastSaved.music.releases[1].splits
           = <<[name |-> sA, share |-> s60], [name |-> sB, share |-> s40]>>
     /\ Vals(mCollaborators, rowObjs)
           = <<[name |-> sA, share |-> s60], [name |-> sB, share |-> s41]>>)
    => mDirty

\* C4: after Discard Changes the collaborator buffer equals the splits last
\* saved for the selected release, and the guard is idle.
C4_DiscardRestoresLastSaved ==
    (lastOp = "M_Discard" /\ view = "MUSIC" /\ M_selectedRelease(M_cur) # 0)
    => /\ Vals(mCollaborators, rowObjs)
             = lastSaved.music.releases[M_selectedRelease(M_cur)].splits
       /\ ~mNavModalOpen /\ mNextNav = NoNav

\* C5: when Save & Continue has resolved, the store entity holds the
\* normalized buffer the user was asked about, one save was triggered, the
\* captured action has run once, the prompt is closed with no pending action,
\* and isDirty is false.
C5_SaveAndContinueCommits ==
    [][/\ (lastOp' = "M_SaveAndNavigate" /\ M_selectedRelease(M_cur) # 0) =>
             /\ Vals(releases'[M_selectedRelease(M_cur)].splits, rowObjs')
                   = Vals(Cleaned(mCollaborators, rowObjs), rowObjs)
             /\ savesInStep' = 1 /\ navExecs' = 1
             /\ ~mNavModalOpen' /\ mNextNav' = NoNav /\ ~mDirty'
       /\ (/\ lastOp' = "P_SaveAndNavigateResume" /\ pNavModalOpen
           /\ P_selectedBook(P_cur) # 0
           /\ \E i \in DOMAIN pending : /\ pending[i].kind = "saveAndNavigate"
                                        /\ pending[i].entry /\ pending[i].alive) =>
             /\ ChapterContentOr(books'[P_selectedBook(P_cur)].chapters, pActiveChapterIndex)
                   = pManuscriptText
             /\ navExecs' = 1
             /\ ~pNavModalOpen' /\ pNextNav' = NoNav /\ ~pDirty']_vars

\* C6: Cancel closes the prompt and clears the pending action, and leaves
\* the tab, the selected entity, the store view, the store's collections and
\* the edit buffers as they were.
C6_CancelLeavesSurface ==
    [][/\ lastOp' = "M_Cancel" =>
             /\ ~mNavModalOpen' /\ mNextNav' = NoNav
             /\ UNCHANGED <<mActiveTab, mSelectedReleaseId, mCollaborators, view, releases,
                            musicTasks, books, pubTasks, rowObjs>>
       /\ lastOp' = "P_Cancel" =>
             /\ ~pNavModalOpen' /\ pNextNav' = NoNav
             /\ UNCHANGED <<pActiveTab, pSelectedBookId, pActiveChapterIndex, pCollaborators,
                            pManuscriptText, pManuscriptDirty, view, releases, musicTasks,
                            books, pubTasks, rowObjs>>]_vars

\* a Cancel has just left a dirty splits buffer in place
C6_CancelledWhileDirty ==
    lastOp = "M_Cancel" /\ ~mNavModalOpen /\ mNextNav = NoNav /\ mDirty

\* C7: for each entry into the prompt the captured action runs at most
\* once, and never after the user has answered Cancel.
C7_AtMostOnceNeverAfterCancel == navExecs <= 1 /\ ~execAfterCancel

\* C8: on the splits tab isDirty is false whenever the buffer and the saved
\* splits are equal once the rows with blank name and blank share are removed
\* from both.
C8_NormalizedEqualIsClean ==
    (/\ view = "MUSIC" /\ mActiveTab = "splits" /\ M_selectedRelease(M_cur) # 0
     /\ Vals(Cleaned(mCollaborators, rowObjs), rowObjs)
           = Vals(Cleaned(releases[M_selectedRelease(M_cur)].splits, rowObjs), rowObjs))
    => ~mDirty

\* C9: a save issued by updateChapterContent's timer comes no sooner than
\* 500 ms after the last updateChapterContent call, and it is the only one of
\* its burst: no other timer of the burst is left to fire.
C9_SaveAfterQuietPeriodOnly ==
    lastOp = "DebouncedSave"
    => /\ sinceEdit >= DebounceTicks
       /\ \A i \in DOMAIN pending : pending[i].kind # "debounce"

ImmediateMutations ==
    {"addRelease", "updateMusicSplits", "addMusicTask", "toggleMusicTask", "addBook",
     "updateBook", "addPublishingTask", "togglePublishingTask", "skipTour"}

\* C10: every store mutation other than updateChapterContent issues exactly
\* one save in the step that applies its change, with a snapshot equal to the
\* state the change left.
C10_ImmediateSaveHoldsEffect ==
    lastOp \in ImmediateMutations
    => /\ savesInStep = 1
       /\ lastSaved = saveState(releases, musicTasks, books, pubTasks, onboarding, rowObjs)

\* addMusicTask has just run and its task is in the snapshot
C10_TaskAddedAndSaved ==
    /\ lastOp = "addMusicTask" /\ savesInStep = 1
    /\ Len(lastSaved.music.tasks) = Len(musicTasks) /\ Len(musicTasks) > 0

\* xs2 is xs with one more entity at the end, carrying the clock's reading as id
AppendedOne(xs, xs2) ==
    /\ Len(xs2) = Len(xs) + 1
    /\ SubSeq(xs2, 1, Len(xs)) = xs
    /\ xs2[Len(xs2)].id = now

\* xs2 is xs changed by id: same length and order, ids kept, and exactly the one
\* addressed entity is changed (as `changed' says) while every other entity is kept
ChangedById(xs, xs2, changed(_, _)) ==
    /\ Len(xs2) = Len(xs)
    /\ \A i \in DOMAIN xs : xs2[i].id = xs[i].id
    /\ \E i \in DOMAIN xs :
          \A j \in DOMAIN xs : IF j = i THEN changed(xs[j], xs2[j]) ELSE xs2[j] = xs[j]

Toggled(x, y) == y = [x EXCEPT !.completed = ~x.completed]

SplitsReplaced(x, y) == y = [x EXCEPT !.splits = y.splits]

BookUpdated(x, y) ==
    \/ y = [x EXCEPT !.chapters = y.chapters]
    \/ y = [x EXCEPT !.rights = y.rights]

\* one chapter slot of the book got new content; titles and the other slots are kept
ChapterSet(x, y) ==
    /\ y = [x EXCEPT !.chapters = y.chapters]
    /\ Len(y.chapters) = Len(x.chapters)
    /\ \E k \in DOMAIN x.chapters :
          \A m \in DOMAIN x.chapters :
             IF m = k THEN y.chapters[m].title = x.chapters[m].title
             ELSE y.chapters[m] = x.chapters[m]

\* C11: every store mutation leaves the collections as the sequential reading says:
\* an add appends one entity at the end of its own collection, an update or toggle
\* by id changes the one entity it is addressed to and no other, and every other
\* collection is left as it was.
C11_MutationsApplyInOrder ==
    [][/\ lastOp' = "addRelease" =>
            AppendedOne(releases, releases') /\ UNCHANGED <<musicTasks, books, pubTasks>>
       /\ lastOp' = "updateMusicSplits" =>
            /\ ChangedById(releases, releases', SplitsReplaced)
            /\ UNCHANGED <<musicTasks, books, pubTasks>>
       /\ lastOp' = "addMusicTask" =>
            /\ AppendedOne(musicTasks, musicTasks')
            /\ ~musicTasks'[Len(musicTasks')].completed
            /\ UNCHANGED <<releases, books, pubTasks>>
       /\ lastOp' = "toggleMusicTask" =>
            /\ ChangedById(musicTasks, musicTasks', Toggled)
            /\ UNCHANGED <<releases, books, pubTasks>>
       /\ lastOp' = "addBook" =>
            AppendedOne(books, books') /\ UNCHANGED <<releases, musicTasks, pubTasks>>
       /\ lastOp' = "updateBook" =>
            /\ ChangedById(books, books', BookUpdated)
            /\ UNCHANGED <<releases, musicTasks, pubTasks>>
       /\ lastOp' = "updateChapterContent" =>
            /\ ChangedById(books, books', ChapterSet)
            /\ UNCHANGED <<releases, musicTasks, pubTasks>>
       /\ lastOp' = "addPublishingTask" =>
            /\ AppendedOne(pubTasks, pubTasks')
            /\ ~pubTasks'[Len(pubTasks')].completed
            /\ UNCHANGED <<releases, musicTasks, books>>
       /\ lastOp' = "togglePublishingTask" =>
            /\ ChangedById(pubTasks, pubTasks', Toggled)
            /\ UNCHANGED <<releases, musicTasks, books>>]_vars

UniqueIds(xs) == \A i, j \in DOMAIN xs : xs[i].id = xs[j].id => i = j

\* C12: no two entities of a collection share an id: every add gave its entity an
\* id that no entity already in the collection carried.
C12_AddedIdsAreFresh ==
    UniqueIds(releases) /\ UniqueIds(books) /\ UniqueIds(musicTasks) /\ UniqueIds(pubTasks)

M_SaveOps == {"M_SaveSplits", "M_SaveAndNavigate"}

\* C13: whenever a save action of the music splits editor (the Save Splits button
\* or the prompt's Save & Continue) has committed the buffer to the selected
\* release, the shares the release then holds in the store sum to 100.
C13_CommittedSplitsSumTo100 ==
    [][(lastOp' \in M_SaveOps /\ M_selectedRelease(M_cur) # 0) =>
          SumShares(releases'[M_selectedRelease(M_cur)].splits, rowObjs') = 100 * 1000]_vars

\* C14: when the startup fetch has failed, the queue holds exactly one toast and
\* it is an error toast, releases, books and both task lists are empty, the
\* store is initialized, and the promise initializeApp returned was fulfilled
\* (the mount effect's then-callback ran and started the tour).
C14_FetchFailureIsContained ==
    lastOp = "FetchRejects" =>
       /\ Len(toasts) = 1 /\ toasts[1].type = "error"
       /\ releases = <<>> /\ books = <<>> /\ musicTasks = <<>> /\ pubTasks = <<>>
       /\ isInitialized
       /\ onboarding.tourStepIndex = 0

C14_FetchFailed == lastOp = "FetchRejects" /\ isInitialized /\ toasts # <<>>

\* C15: whenever initializeApp is waiting for its fetch, and the fetch settles,
\* the store eventually is initialized (the loader gives way to the application).
C15_LoaderEventuallyReplaced == FetchInFlight ~> isInitialized

C15_LoadedAfterFetch == lastOp = "FetchResolves" /\ isInitialized /\ releases # <<>>

ToastTimers == SelectSeq(pending, LAMBDA it : it.kind = "toast")

ToastIds == 5..MaxNow

InQueue(id) == \E i \in DOMAIN toasts : toasts[i].id = id

\* C16: every toast in the queue has its own timer, started with 5000 ms when the
\* toast was added and not yet run out (so the toast is at most 5000 ms old),
\* and every toast in the queue is eventually removed from it.
C16_ToastsExpire ==
    /\ [](isInitialized =>
            /\ Len(ToastTimers) = Len(toasts)
            /\ \A i \in DOMAIN toasts :
                  /\ ToastTimers[i].idx = toasts[i].id
                  /\ ToastTimers[i].rem \in 0..ToastTicks)
    /\ \A id \in ToastIds : InQueue(id) ~> ~InQueue(id)

\* a toast was removed by its timer, 5000 ms after it was added
C16_ToastTimedOut == lastOp = "ToastExpire" /\ toasts = <<>> /\ pending = <<>>


\* The {name, share} values of the splits of every release and book of the store.
StoreSplits ==
    <<[i \in DOMAIN releases |-> Vals(releases[i].splits, rowObjs)],
      [i \in DOMAIN books |-> Vals(books[i].splits, rowObjs)]>>

\* C19: a step of handleAddCollaborator or handleCollaboratorChange, which
\* edits the collaborator buffer and calls neither updateMusicSplits nor
\* updateBook, leaves the splits of every release and book of the store as
\* they were.
C19_BufferEditsLeaveStore ==
    [][lastOp' \in {"M_AddCollaborator", "M_CollaboratorChange",
                    "P_AddCollaborator", "P_CollaboratorChange"}
          => StoreSplits' = StoreSplits]_vars


\* C18: when the generation call of an AI handler fails, the step that
\* handles the failure adds exactly one toast, of type error, leaves the
\* handler's loading flag false, issues no further call, and changes no
\* release, book, task or collaborator row of the store.
C18_AiFailureIsContained ==
    [][lastOp' \in {"M_MetadataFailed", "P_GenerateFailed"}
          => \E i \in DOMAIN pending :
                /\ pending[i].kind = "generate"
                /\ pending' = Remove(pending, i)
                /\ Len(toasts') = Len(toasts) + 1
                /\ SubSeq(toasts', 1, Len(toasts)) = toasts
                /\ toasts'[Len(toasts')].type = "error"
                /\ ~loading'[pending[i].key]
                /\ UNCHANGED <<releases, musicTasks, books, pubTasks, rowObjs, lastSaved>>]_vars

\* a failed blurb call has been handled: the book has no blurb, the flag is
\* down and the error toast is shown
C18_BlurbCallFailed ==
    /\ lastOp = "P_GenerateFailed" /\ pActiveTab = "marketing"
    /\ ~loading["blurb"] /\ pending = <<>>
    /\ Len(toasts) = 1 /\ toasts[1].type = "error"
    /\ \A b \in DOMAIN books : books[b].blurb = "" /\ books[b].coverImageUrl = ""

\* C20: when the response of a proofread or enrich call arrives, its text is
\* written to the chapter of the book id and chapter index that were
\* selected when the call was issued, whatever is selected by then; every
\* other chapter of every book keeps its content.
C20_StaleResponseIsApplied ==
    [][lastOp' \in {OpFulfilled("proofread"), OpFulfilled("enrichment")}
          => \E i \in DOMAIN pending :
                /\ pending[i].kind = "generate"
                /\ pending[i].key \in {"proofread", "enrichment"}
                /\ \E b \in DOMAIN books : books[b].id = pending[i].book
                /\ Len(books') = Len(books)
                /\ \A b \in DOMAIN books :
                      /\ books[b].id = pending[i].book
                            => /\ pending[i].idx + 1 \in DOMAIN books'[b].chapters
                               /\ books'[b].chapters[pending[i].idx + 1].content \in AiTexts
                      /\ \A c \in DOMAIN books[b].chapters :
                            (books[b].id # pending[i].book \/ c # pending[i].idx + 1)
                               => /\ c \in DOMAIN books'[b].chapters
                                  /\ books'[b].chapters[c].content
                                        = books[b].chapters[c].content]_vars

\* the response of a call issued on chapter 1 of book 1 was applied while
\* book 2 was selected
C20_AppliedAfterBookSwitch ==
    /\ lastOp = OpFulfilled("proofread") /\ view = "PUBLISHING"
    /\ pSelectedBookId = <<"2">>
    /\ books[1].chapters[1].content \in AiTexts
    /\ books[2].chapters[1].content = ""

\* C21: in either view the confirmation prompt is open exactly when a
\* navigation action is held: isNavModalOpen is true iff nextNavigationAction
\* is not null (the one state variable holds at most one action).
C21_PromptOpenIffActionHeld ==
    /\ mNavModalOpen <=> mNextNav # NoNav
    /\ pNavModalOpen <=> pNextNav # NoNav

\* the prompt is open with an action held while Save & Continue awaits its save
C21_PromptOpenDuringSave ==
    /\ view = "PUBLISHING" /\ pNavModalOpen /\ pNextNav # NoNav
    /\ \E i \in DOMAIN pending : pending[i].kind = "saveAndNavigate" /\ pending[i].alive

\* C22: isDirty is false whenever the active tab is not an editing surface
\* (music: not 'splits'; publishing: neither 'studio' nor 'rights_splits'),
\* whatever the edit buffers hold, and a navigation requested from such a tab
\* runs at once without opening the prompt.
C22_OffSurfaceIsClean ==
    /\ [](/\ mActiveTab # "splits" => ~mDirty
          /\ pActiveTab \notin {"studio", "rights_splits"} => ~pDirty)
    /\ [][/\ (lastOp' \in M_NavOps /\ mActiveTab # "splits")
                => ~mNavModalOpen' /\ M_NavRan
          /\ (lastOp' \in P_NavOps /\ pActiveTab \notin {"studio", "rights_splits"})
                => ~pNavModalOpen' /\ P_NavRan]_vars

\* a tab click ran without a prompt although the manuscript buffer was dirty:
\* it was made off the studio tab
C22_NavigatedWithDirtyManuscript ==
    /\ lastOp = "P_TabClick" /\ view = "PUBLISHING"
    /\ pActiveTab = "distribution" /\ pManuscriptDirty
    /\ ~pNavModalOpen /\ pNextNav = NoNav

\* the music view, whose handlers await nothing; toasts leave after 5 s
SpecMusicLive == SpecMusic /\ WF_vars(DismissToast)

\* what _saveState would send now differs from what api.saveData last received
Unsaved ==
    lastSaved # saveState(releases, musicTasks, books, pubTasks, onboarding, rowObjs)

\* C23: whenever the store's collections differ from the snapshot last
\* passed to api.saveData, a later save call passes a snapshot that holds
\* them; no in-memory change stays unsaved forever.
C23_EveryChangeIsSaved == Unsaved ~> ~Unsaved

\* C24: after handleManuscriptChange and the effects that follow it,
\* isManuscriptDirty is true, and it stays true over every step that is
\* neither the user's answer to the prompt nor a change of the selected book
\* or chapter; a navigation requested in that state opens the prompt.
C24_TypingMarksDirty ==
    /\ []((lastOp = "P_ManuscriptChange" /\ view = "PUBLISHING") => pManuscriptDirty)
    /\ [][(/\ pManuscriptDirty /\ view = "PUBLISHING"
           /\ ~P_Resolving
           /\ pSelectedBookId' = pSelectedBookId
           /\ pActiveChapterIndex' = pActiveChapterIndex
           /\ view' = "PUBLISHING")
             => pManuscriptDirty']_vars

\* C25: once the response of a proofread or enrich call has been applied to
\* the manuscript and the effects have run, the editor shows the AI text and
\* Undo is available (lastManuscriptState is not null); and handleUndo puts
\* the text that preceded the AI change back into the editor and into the
\* stored chapter that the AI change was written to.
C25_UndoRestoresAiChange ==
    /\ []((/\ lastOp \in {OpFulfilled("proofread"), OpFulfilled("enrichment")}
           /\ view = "PUBLISHING" /\ pManuscriptText \in AiTexts)
             => pLastManuscriptState # Undefined)
    /\ [][lastOp' = "P_Undo"
            => /\ pManuscriptText' = pLastManuscriptState
               /\ \E b \in DOMAIN books : \E c \in DOMAIN books[b].chapters :
                     /\ books[b].chapters[c].content \in AiTexts
                     /\ books'[b].chapters[c].content = pLastManuscriptState]_vars

\* C26: a step of handleToggleRight on the Rights & Splits tab leaves the
\* collaborator edit buffer as it was: the rows the user added or edited and
\* has not saved are still in it.
C26_ToggleKeepsBuffer ==
    [][lastOp' = "P_ToggleRight"
          => Vals(pCollaborators', rowObjs') = Vals(pCollaborators, rowObjs)]_vars

\* C27: a step that only calls updateChapterContent (typing, an applied AI
\* change, Undo) changes the number of chapters of no book, and no book ever
\* holds a chapter without a title.
C27_OnlyContentIsReplaced ==
    /\ [](\A b \in DOMAIN books : \A c \in DOMAIN books[b].chapters :
             books[b].chapters[c].title.label # Undefined)
    /\ [][lastOp' \in {"P_ManuscriptChange", "P_Undo", "P_ProofreadFulfilled",
                       "P_EnrichFulfilled"}
            => \A b \in DOMAIN books :
                  Len(books'[b].chapters) = Len(books[b].chapters)]_vars

\* C28: for every AI action key, loading[key] is true exactly while a call of
\* that action is outstanding.
C28_LoadingIffOutstanding ==
    \A key \in LoadingKeys :
       loading[key] <=> \E i \in DOMAIN pending : pending[i].key = key

\* C29: no two toasts in the queue share an id, and a step of dismissToast, by
\* the close button or by the timer, removes exactly one toast and keeps the
\* others in their order.
C29_DismissRemovesOneToast ==
    /\ [](UniqueIds(toasts))
    /\ [][lastOp' \in {"T_Dismiss", "ToastExpire"}
            => \E i \in DOMAIN toasts : toasts' = Remove(toasts, i)]_vars

TourDone ==
    /\ onboarding.tourStepIndex = -1 /\ onboarding.onboardingComplete
    /\ view = "DASHBOARD"

\* C30: from startTour each Next raises tourStepIndex by one and shows that
\* step's view; Next on the last step, or Skip, leaves tourStepIndex = -1,
\* onboardingComplete = true and the dashboard; once the tour is complete it
\* stays complete, startTour changes nothing, and tourStepIndex >= 0 never
\* holds together with onboardingComplete.
C30_TourTerminates ==
    /\ [](onboarding.tourStepIndex \in -1..(Len(TOUR_STEPS) - 1))
    /\ [](onboarding.onboardingComplete => onboarding.tourStepIndex = -1)
    /\ [][lastOp' = "Tour_Next"
            => IF onboarding.tourStepIndex < Len(TOUR_STEPS) - 1
               THEN /\ onboarding'.tourStepIndex = onboarding.tourStepIndex + 1
                    /\ view' = TOUR_STEPS[onboarding'.tourStepIndex + 1].view
                    /\ ~onboarding'.onboardingComplete
               ELSE TourDone']_vars
    /\ [][lastOp' = "Tour_Skip" => TourDone']_vars
    /\ [][(isInitialized /\ onboarding.onboardingComplete)
            => /\ onboarding' = onboarding
               /\ lastOp' = "startTour" => view' = view]_vars

\* Finish was clicked on the last step
C30_TourFinished ==
    /\ lastOp = "Tour_Next" /\ TourDone
    /\ \E i \in DOMAIN pending : pending[i].kind = "skipTour"

==============================================================================
